---- MODULE Spec2Model ----
(***************************************************************************)
(* A model of the news qualification pipeline of deepseek_pipeline.py:     *)
(* NewsQualificationPipeline (construction, the headline log, the model    *)
(* fallback chain, process_news and the two saves).                        *)
(***************************************************************************)
EXTENDS Integers, Sequences, FiniteSets, TLC

\* ------------------------------------------------------------------ bounds
\* records in one batch handed to process_news, in the one-process specification
MaxBatchLen == 2
\* processes started one after the other, in the specification of several runs
MaxRuns == 2
\* records in one batch, in the specification of several runs
MaxRunBatchLen == 1
\* records in one batch, in the specification of the fallback chain
MaxCallBatchLen == 1

\* ------------------------------------------------------------ Python values
\* Python's None, and a value absent from a dict
NoneV == "None"
Missing == "<missing>"

\* the values an API key argument or environment variable can take
KeyValues == {NoneV, "", "sk-key"}

\* Python truthiness of the values the model uses
Truthy(v) == v \notin {NoneV, "", Missing, "bool:false", "num:0"}

\* Python's `a or b`
PyOr(a, b) == IF Truthy(a) THEN a ELSE b

\* news titles
Titles == {"t1", "t2"}

\* the nine tags of the qualification prompt
AllowedTags ==
    { "Automotive-Confirmed", "Automotive-Predictive_Alert",
      "Infrastructure-Contract_Won", "Infrastructure-Ongoing_Tender",
      "Realty-Announced", "Realty-Predictive_Alert",
      "Renewable_Energy-Contract_Won", "Renewable_Energy-Ongoing_Tender",
      "Renewable_Energy-Predictive_Alert" }

\* --------------------------------------------------------- model responses
\* A response text is a sequence of tokens: braces, the member list of a JSON
\* object ("members"), the two one-word answers in either case, and other text.
Texts ==
    { <<"DUPLICATE">>, <<"duplicate">>, <<"UNIQUE">>,
      <<"txt", "Duplicate", "txt">>, <<>>, <<"txt">>,
      <<"{", "members", "}">>, <<"txt", "{", "members", "}", "txt">>,
      <<"{", "}">>, <<"{", "txt", "}">>, <<"{", "members">>,
      <<"}", "{">>, <<"{", "members", "}", "}">> }

\* the values the model may give the three fields process_news reads
QualifiedValues == {"bool:true", "bool:false", "str:false", "num:0", Missing}
TagValues == {"Infrastructure-Contract_Won", "Steel-Other", Missing}
ReasoningValues == {"str:steel needed", "null", Missing}

\* the object the prompt asks for, qualified and not
NominalObject ==
    [qualified |-> "bool:true", tag |-> "Infrastructure-Contract_Won",
     reasoning |-> "str:steel needed"]

UnqualifiedObject == [NominalObject EXCEPT !.qualified = "bool:false"]

\* the JSON objects a response may carry: the nominal object with at most one
\* field changed, and the unqualified object with any reasoning
Members ==
    { m \in [qualified : QualifiedValues, tag : TagValues, reasoning : ReasoningValues] :
        \/ Cardinality({f \in {"qualified", "tag", "reasoning"} :
               m[f] # NominalObject[f]}) <= 1
        \/ m.qualified = "bool:false" /\ m.tag = NominalObject.tag }

\* the empty JSON object
EmptyObject == [qualified |-> Missing, tag |-> Missing, reasoning |-> Missing]

Responses ==
    { [text |-> t, members |-> m] :
        t \in {x \in Texts : \E k \in 1..Len(x) : x[k] = "members"}, m \in Members }
    \cup
    { [text |-> t, members |-> EmptyObject] :
        t \in {x \in Texts : \A k \in 1..Len(x) : x[k] # "members"} }

\* the responses of a model that answers as the prompts ask
PlainResponses ==
    { [text |-> <<"DUPLICATE">>, members |-> EmptyObject],
      [text |-> <<"UNIQUE">>, members |-> EmptyObject],
      [text |-> <<"{", "members", "}">>, members |-> NominalObject],
      [text |-> <<"{", "members", "}">>, members |-> UnqualifiedObject] }

\* str.upper(), token by token
UpperToken(c) ==
    CASE c = "duplicate" -> "DUPLICATE"
      [] c = "Duplicate" -> "DUPLICATE"
      [] c = "txt" -> "TXT"
      [] c = "members" -> "MEMBERS"
      [] OTHER -> c

Upper(text) == [k \in 1..Len(text) |-> UpperToken(text[k])]

\* `sub in text`
Contains(text, sub) == \E k \in 1..Len(text) : text[k] = sub

\* str.find and str.rfind: 0-based index of the first / last occurrence, or -1
Find(text, c) ==
    IF Contains(text, c)
    THEN (CHOOSE k \in 1..Len(text) :
             text[k] = c /\ \A j \in 1..(k - 1) : text[j] # c) - 1
    ELSE -1

RFind(text, c) ==
    IF Contains(text, c)
    THEN (CHOOSE k \in 1..Len(text) :
             text[k] = c /\ \A j \in (k + 1)..Len(text) : text[j] # c) - 1
    ELSE -1

\* json.loads of a slice of the response: the slice is a JSON object exactly
\* when it is a brace pair around nothing or around the member list
JsonLoads(json_str, members) ==
    IF json_str = <<"{", "members", "}">> THEN [raised |-> FALSE, value |-> members]
    ELSE IF json_str = <<"{", "}">> THEN [raised |-> FALSE, value |-> EmptyObject]
    ELSE [raised |-> TRUE, value |-> EmptyObject]

\* dict.get(key, default)
Get(d, key, default) == IF d[key] = Missing THEN default ELSE d[key]

\* the two diagnostic results of _qualify_news_content
NoJsonResult ==
    [qualified |-> "bool:false", tag |-> Missing,
     reasoning |-> "str:Failed to parse AI model response"]

BadJsonResult ==
    [qualified |-> "bool:false", tag |-> Missing,
     reasoning |-> "str:Failed to parse AI model response: JSONDecodeError"]

\* how the brace heuristic of _qualify_news_content sees a response
ParseKind(result) ==
    LET start_idx == Find(result.text, "{")
        end_idx == RFind(result.text, "}") + 1
    IN IF start_idx >= 0 /\ end_idx > start_idx
       THEN IF JsonLoads(SubSeq(result.text, start_idx + 1, end_idx), result.members).raised
            THEN "malformed" ELSE "ok"
       ELSE "nobrace"

\* an except clause that returns the empty dictionary
QualifyResult_EmptyOnError(result) ==
    LET start_idx == Find(result.text, "{")
        end_idx == RFind(result.text, "}") + 1
    IN IF start_idx >= 0 /\ end_idx > start_idx
       THEN JsonLoads(SubSeq(result.text, start_idx + 1, end_idx), result.members).value
       ELSE NoJsonResult

\* the dictionary _qualify_news_content returns for a model response
QualifyResult(result) ==
    LET start_idx == Find(result.text, "{")
        end_idx == RFind(result.text, "}") + 1
    IN IF start_idx >= 0 /\ end_idx > start_idx
       THEN LET loaded == JsonLoads(SubSeq(result.text, start_idx + 1, end_idx),
                                    result.members)
            IN IF loaded.raised THEN BadJsonResult ELSE loaded.value
       ELSE NoJsonResult

\* the test without .upper()
IsDuplicateAnswer_CaseSensitive(result) == Contains(result.text, "DUPLICATE")

\* is_duplicate of _check_headline_duplicate
IsDuplicateAnswer(result) == Contains(Upper(result.text), "DUPLICATE")

\* `x[:100]` on the reasoning text: a TypeError when it is not a string
Sliceable(v) == v # "null"

\* ----------------------------------------------------------------- files
HeadlineFileKinds == {"absent", "list", "malformed", "nonlist", "undecodable"}

HFile(kind, items) == [kind |-> kind, items |-> items]

\* the in-memory value of self.sent_headlines
PyList(items) == [isList |-> TRUE, items |-> items]
NonList == [isList |-> FALSE, items |-> <<>>]

\* _load_sent_headlines: the value returned, or the exception that escapes
LoadSentHeadlines(file) ==
    CASE file.kind = "absent" -> [raised |-> "none", value |-> PyList(<<>>)]
      [] file.kind = "list" -> [raised |-> "none", value |-> PyList(file.items)]
      [] file.kind = "malformed" -> [raised |-> "none", value |-> PyList(<<>>)]
      [] file.kind = "nonlist" -> [raised |-> "none", value |-> NonList]
      [] OTHER -> [raised |-> "UnicodeDecodeError", value |-> PyList(<<>>)]

\* the files a process may find on disk when it starts
InitialHeadlineFiles ==
    { HFile("absent", <<>>), HFile("list", <<"t1">>),
      HFile("malformed", <<>>), HFile("nonlist", <<>>), HFile("undecodable", <<>>) }

AbsentTable == [kind |-> "absent", rows |-> <<>>]

InitialQualifiedFiles ==
    { AbsentTable,
      [kind |-> "table",
       rows |-> <<[title |-> "t1", tag |-> "Infrastructure-Contract_Won"]>>] }

\* ------------------------------------------------------------------ state
\* the elements of a sequence
Range(seq) == {seq[k] : k \in 1..Len(seq)}

VARIABLES
    pc,                 \* where the process is
    error,              \* the exception that ended construction or process_news
    headlines_file,     \* sent_headlines.json
    qualified_file,     \* qualified_news.csv
    deepseek_api_key,   \* self.deepseek_api_key
    gemini_api_key,     \* self.gemini_api_key
    deepseek,           \* self.deepseek is not None
    gemini,             \* self.gemini is not None
    sent_headlines,     \* self.sent_headlines
    news_items,         \* the batch: the titles of its records
    i,                  \* the record the loop of process_news is at
    qualified_news,     \* process_news's list of accepted items
    newly_sent_headlines,
    qualification,      \* the dictionary _qualify_news_content returned
    parse,              \* how the brace heuristic saw the response behind it
    stage,              \* the fallback stage _call_ai_model is at
    attempts,           \* the provider invocations of the call in progress
    rec_log,            \* per record of the batch: its calls, answer and outcome
    files0,             \* both files as they were when the process started
    runs,               \* pipelines constructed so far
    processed,          \* titles an earlier batch that returned did not drop
    logged,             \* titles accepted by an earlier batch that saved its log
    log_intact,         \* no write of the headline log has failed
    title,              \* the title of a BSE announcement
    company,            \* its company name
    fn,                 \* the function of bse_scraper2.py applied to it
    returned,           \* what the function returned
    all_news_items,     \* crawl4ai_agent.py: what the searches of main found
    csv_files,          \* the result files merge_contract_news_files is given
    file_no,            \* the input file its loop is at
    seen_titles,        \* its set of titles
    all_news,           \* its list of kept items
    contract_news_csv,  \* contract_news.csv
    merge_pc,           \* where main of crawl4ai_agent.py is
    table_items,        \* bse_scraper2.py: data['Table'] of the API response
    item_no,            \* the item the fetch loop is at
    infra_announcements,\* the announcements kept
    announcement_no,    \* the announcement the enrichment loop is at
    scrape_pc,          \* where scrape_bse_announcements is
    pipeline_running,   \* app.py: the flag pipeline_lock guards
    request_pc,         \* per POST /api/run_pipeline request: where its handler is
    response,           \* per request: the status code of the answer
    worker_pc,          \* per request: where the thread it started is
    status_reported,    \* what /api/pipeline_status answered last
    csv_version,        \* app.py: the modification time of qualified_news.csv
    last_modified_time, \* the global of load_projects_from_csv
    cached_projects,    \* the global: the version of the file the records are of
    load_pc,            \* per call of load_projects_from_csv: where it is
    current_mtime,      \* per call: the local current_mtime
    projects,           \* per call: the local projects
    load_returned       \* per call: what the last call returned

vars ==
    << pc, error, headlines_file, qualified_file, deepseek_api_key, gemini_api_key,
       deepseek, gemini, sent_headlines, news_items, i, qualified_news,
       newly_sent_headlines, qualification, parse, stage, attempts, rec_log,
       files0, runs, processed, logged, log_intact, title, company, fn, returned,
       all_news_items, csv_files, file_no, seen_titles, all_news, contract_news_csv,
       merge_pc, table_items, item_no, infra_announcements, announcement_no, scrape_pc,
       pipeline_running, request_pc, response, worker_pc, status_reported,
       csv_version, last_modified_time, cached_projects, load_pc, current_mtime,
       projects, load_returned >>

extractVars == << title, company, fn, returned >>

mergeVars ==
    << all_news_items, csv_files, file_no, seen_titles, all_news, contract_news_csv,
       merge_pc >>

pipelineVars ==
    << pc, error, headlines_file, qualified_file, deepseek_api_key, gemini_api_key,
       deepseek, gemini, sent_headlines, news_items, i, qualified_news,
       newly_sent_headlines, qualification, parse, stage, attempts, rec_log,
       files0, runs, processed, logged, log_intact >>

\* what the pipeline leaves alone, and what the extractors leave alone
scrapeVars == << table_items, item_no, infra_announcements, announcement_no, scrape_pc >>

appVars == << pipeline_running, request_pc, response, worker_pc, status_reported >>

cacheVars ==
    << csv_version, last_modified_time, cached_projects, load_pc, current_mtime,
       projects, load_returned >>

webVars == << appVars, cacheVars >>

outsidePipeline == << extractVars, mergeVars, scrapeVars, webVars >>
outsideExtract == << pipelineVars, mergeVars, scrapeVars, webVars >>

fileVars == << headlines_file, qualified_file >>
configVars == << deepseek_api_key, gemini_api_key, deepseek, gemini >>
batchVars == << news_items, i, qualified_news, newly_sent_headlines >>
judgeVars == << qualification, parse >>
callVars == << stage, attempts >>
historyVars == << processed, logged, log_intact >>

Files == [h |-> headlines_file, q |-> qualified_file]

\* no announcement is being looked at
ExtractIdle ==
    /\ title = <<>>
    /\ company = <<>>
    /\ fn = "none"
    /\ returned = NoneV

\* the files merge_contract_news_files is given, in the order of main
\* (crawl4ai_agent.py, lines 599, 692 and 787-791)
InputFileNames ==
    << "bse_scraper1_results.csv", "bse_scraper2_results.csv", "crawl4ai_results.csv" >>

\* a CSV file of contract news: whether it exists, and the items read from it
CsvFile(exists, rows) == [exists |-> exists, rows |-> rows]
NoCsv == CsvFile(FALSE, <<>>)

\* main of crawl4ai_agent.py has not started
MergeIdle ==
    /\ all_news_items = <<>>
    /\ csv_files = [name \in Range(InputFileNames) |-> NoCsv]
    /\ file_no = 1
    /\ seen_titles = {}
    /\ all_news = <<>>
    /\ contract_news_csv = NoCsv
    /\ merge_pc = "idle"

\* scrape_bse_announcements has not been called
ScrapeIdle ==
    /\ table_items = <<>>
    /\ item_no = 1
    /\ infra_announcements = <<>>
    /\ announcement_no = 1
    /\ scrape_pc = "idle"

\* POST /api/run_pipeline requests the server is sent
MaxRequests == 3

Requests == 1..MaxRequests

\* no request has come in; the flag is as the module sets it (app.py, line 30)
AppIdle ==
    /\ pipeline_running = FALSE
    /\ request_pc = [r \in Requests |-> "none"]
    /\ response = [r \in Requests |-> 0]
    /\ worker_pc = [r \in Requests |-> "none"]
    /\ status_reported = FALSE

\* concurrent calls of load_projects_from_csv
MaxCallers == 2

Callers == 1..MaxCallers

\* no call of load_projects_from_csv has been made; the globals are as the
\* module sets them (app.py, lines 28-29), the cache empty
CacheIdle ==
    /\ csv_version = 1
    /\ last_modified_time = 0
    /\ cached_projects = 0
    /\ load_pc = [c \in Callers |-> "none"]
    /\ current_mtime = [c \in Callers |-> 0]
    /\ projects = [c \in Callers |-> 0]
    /\ load_returned = [c \in Callers |-> 0]

WebIdle == AppIdle /\ CacheIdle

\* nothing but the pipeline is at work
OutsidePipelineIdle == ExtractIdle /\ MergeIdle /\ ScrapeIdle /\ WebIdle

\* no pipeline has been constructed
PipelineIdle ==
    /\ pc = "idle"
    /\ error = "none"
    /\ deepseek_api_key = NoneV
    /\ gemini_api_key = NoneV
    /\ deepseek = FALSE
    /\ gemini = FALSE
    /\ sent_headlines = PyList(<<>>)
    /\ news_items = <<>>
    /\ i = 1
    /\ qualified_news = <<>>
    /\ newly_sent_headlines = <<>>
    /\ qualification = EmptyObject
    /\ parse = "none"
    /\ stage = 1
    /\ attempts = <<>>
    /\ rec_log = <<>>
    /\ files0 = Files
    /\ runs = 0
    /\ processed = {}
    /\ logged = {}
    /\ log_intact = TRUE

Init ==
    /\ OutsidePipelineIdle
    /\ headlines_file \in InitialHeadlineFiles
    /\ qualified_file \in InitialQualifiedFiles
    /\ PipelineIdle

\* ---------------------------------------------------------- construction
\* the check written with `is None`: an empty key passes
NoApiKey_IsNone(ds_key, gm_key) == ds_key = NoneV /\ gm_key = NoneV

\* the check of lines 54-55: no usable key at all
NoApiKey(ds_key, gm_key) == ~Truthy(ds_key) /\ ~Truthy(gm_key)

\* NewsQualificationPipeline.__init__ with the given arguments and environment;
\* ds_client, gm_client: whether the client library is installed and its
\* constructor succeeds
Construct(arg_ds, env_ds, arg_gm, env_gm, ds_client, gm_client) ==
    LET ds_key == PyOr(arg_ds, env_ds)
        gm_key == PyOr(arg_gm, env_gm)
        loaded == LoadSentHeadlines(headlines_file)
    IN
    /\ pc = "idle"
    /\ runs < MaxRuns
    /\ runs' = runs + 1
    /\ deepseek_api_key' = ds_key
    /\ gemini_api_key' = gm_key
    /\ files0' = Files
    /\ IF NoApiKey(ds_key, gm_key)
       THEN /\ pc' = "init_failed"
            /\ error' = "ValueError"
            /\ UNCHANGED << sent_headlines, deepseek, gemini >>
       ELSE IF loaded.raised # "none"
       THEN /\ pc' = "init_failed"
            /\ error' = loaded.raised
            /\ UNCHANGED << sent_headlines, deepseek, gemini >>
       ELSE /\ pc' = "ready"
            /\ error' = "none"
            /\ sent_headlines' = loaded.value
            /\ deepseek' = (Truthy(ds_key) /\ ds_client)
            /\ gemini' = (Truthy(gm_key) /\ gm_client)
    /\ UNCHANGED << outsidePipeline, fileVars, batchVars, judgeVars, callVars, rec_log, historyVars >>

\* the process ends: everything in memory is gone, the files stay
Exit ==
    /\ pc \in {"init_failed", "done", "raised"}
    /\ pc' = "idle"
    /\ error' = "none"
    /\ deepseek_api_key' = NoneV
    /\ gemini_api_key' = NoneV
    /\ deepseek' = FALSE
    /\ gemini' = FALSE
    /\ sent_headlines' = PyList(<<>>)
    /\ news_items' = <<>>
    /\ i' = 1
    /\ qualified_news' = <<>>
    /\ newly_sent_headlines' = <<>>
    /\ qualification' = EmptyObject
    /\ parse' = "none"
    /\ stage' = 1
    /\ attempts' = <<>>
    /\ rec_log' = <<>>
    /\ files0' = Files
    /\ UNCHANGED << outsidePipeline, fileVars, runs, historyVars >>

\* ------------------------------------------------------------ process_news
Batches(max_len) == UNION {[1..n -> Titles] : n \in 0..max_len}

NewRecord ==
    [dup_calls |-> 0, qual_calls |-> 0, answer |-> "none", outcome |-> "Pending",
     seen |-> PyList(<<>>)]

\* the titles accepted so far in the batch put into the prompt as well
PromptHeadlines_WithBatch(sent, newly) == [sent EXCEPT !.items = @ \o newly]

\* the previously sent headlines the duplicate prompt lists (line 129)
PromptHeadlines(sent, newly) == sent

\* whether a response mentions the word, in any case
MentionsDuplicate(text) ==
    \E k \in 1..Len(text) : text[k] \in {"DUPLICATE", "duplicate", "Duplicate"}

\* every duplicate check started at once, before the loop
FreshLog_AllStarted(items) ==
    [k \in 1..Len(items) |-> [NewRecord EXCEPT !.dup_calls = 1]]

\* before the loop no record of the batch has had a call (lines 297-302)
FreshLog(items) == [k \in 1..Len(items) |-> NewRecord]

\* the loop moves to record k: its duplicate check starts, or the loop is over
PcAt(items, k) == IF k <= Len(items) THEN "dup" ELSE "finish"

\* and the prompt of its duplicate check is built from self.sent_headlines
LogAt(log, items, k) ==
    IF k <= Len(items)
    THEN [log EXCEPT ![k].dup_calls = @ + 1,
                     ![k].seen = PromptHeadlines(sent_headlines, newly_sent_headlines')]
    ELSE log

\* process_news is called with a batch (lines 297-302)
ProcessNews(items) ==
    /\ pc = "ready"
    /\ news_items' = items
    /\ qualified_news' = <<>>
    /\ newly_sent_headlines' = <<>>
    /\ i' = 1
    /\ pc' = PcAt(items, 1)
    /\ rec_log' = LogAt(FreshLog(items), items, 1)
    /\ stage' = 1
    /\ attempts' = <<>>
    /\ UNCHANGED << outsidePipeline, error, fileVars, configVars, sent_headlines, judgeVars, files0,
                    runs, historyVars >>

\* the two client stages in the other order
StageProvider_GeminiFirst(s) ==
    CASE s = 1 -> "gemini_client"
      [] s = 2 -> "deepseek_client"
      [] s = 3 -> "deepseek_http"
      [] OTHER -> "gemini_http"

\* the provider each stage of _call_ai_model invokes, in the order of the code
StageProvider(s) ==
    CASE s = 1 -> "deepseek_client"
      [] s = 2 -> "gemini_client"
      [] s = 3 -> "deepseek_http"
      [] OTHER -> "gemini_http"

NumStages == 4

\* the `if` that guards each stage (lines 227, 237, 249, 273)
ProviderAvailable(p) ==
    CASE p = "deepseek_client" -> deepseek
      [] p = "gemini_client" -> gemini
      [] p = "deepseek_http" -> Truthy(deepseek_api_key)
      [] OTHER -> Truthy(gemini_api_key)

\* a stage that raised is tried again
AfterFailure_Retry(s) == s

\* where _call_ai_model goes after a stage raised: the except falls through
AfterFailure(s) == s + 1

InCall == pc \in {"dup", "qual"}

\* a stage whose client or key is not there is passed over
SkipStage ==
    /\ InCall
    /\ stage <= NumStages
    /\ ~ProviderAvailable(StageProvider(stage))
    /\ stage' = stage + 1
    /\ UNCHANGED << outsidePipeline, pc, error, fileVars, configVars, sent_headlines, batchVars,
                    judgeVars, attempts, rec_log, files0, runs, historyVars >>

\* the provider of the stage raises; the except clause logs it
StageFails ==
    /\ InCall
    /\ stage <= NumStages
    /\ ProviderAvailable(StageProvider(stage))
    /\ attempts' = Append(attempts, [provider |-> StageProvider(stage), ok |-> FALSE])
    /\ stage' = AfterFailure(stage)
    /\ UNCHANGED << outsidePipeline, pc, error, fileVars, configVars, sent_headlines, batchVars,
                    judgeVars, rec_log, files0, runs, historyVars >>

\* the provider of the stage answers and _call_ai_model returns (lines 231, 242,
\* 268, 280)
StageReturns ==
    /\ InCall
    /\ stage <= NumStages
    /\ ProviderAvailable(StageProvider(stage))
    /\ attempts' = Append(attempts, [provider |-> StageProvider(stage), ok |-> TRUE])
    /\ pc' = IF pc = "dup" THEN "dup_ret" ELSE "qual_ret"
    /\ UNCHANGED << outsidePipeline, error, fileVars, configVars, sent_headlines, batchVars, judgeVars,
                    stage, rec_log, files0, runs, historyVars >>

\* an except clause that names only TypeError
LoopCatches_TypeErrorOnly(exc) == exc = "TypeError"

\* the exceptions `except Exception` of the loop body catches (line 327)
LoopCatches(exc) == exc \in {"Exception", "TypeError"}

\* the index of the record the loop takes after record k
NextIndex(k) == k + 1

\* the outcome of a record whose loop body raised
ErrorOutcome(exc) == IF exc = "Exception" THEN "Errored" ELSE "Crashed"

\* the loop body ends for record i with the given outcome; the loop goes on
EndRecord(outcome, log) ==
    /\ i' = NextIndex(i)
    /\ pc' = PcAt(news_items, NextIndex(i))
    /\ rec_log' = LogAt([log EXCEPT ![i].outcome = outcome], news_items, NextIndex(i))
    /\ stage' = 1
    /\ attempts' = <<>>

\* an exception leaves the loop body of record i
RaiseInLoop(exc, log) ==
    IF LoopCatches(exc)
    THEN /\ EndRecord(ErrorOutcome(exc), log)
         /\ UNCHANGED error
    ELSE /\ pc' = "raised"
         /\ error' = exc
         /\ rec_log' = [log EXCEPT ![i].outcome = ErrorOutcome(exc)]
         /\ UNCHANGED << i, stage, attempts >>

\* no stage is left: _call_ai_model raises (line 285)
AllFailed ==
    /\ InCall
    /\ stage > NumStages
    /\ UNCHANGED << outsidePipeline, fileVars, configVars, sent_headlines, news_items, qualified_news,
                    newly_sent_headlines, judgeVars, files0, runs, historyVars >>
    /\ RaiseInLoop("Exception", rec_log)

\* the duplicate check reads its answer (lines 139-141, 307-310)
DupCheckReturns(result) ==
    LET log == [rec_log EXCEPT
                  ![i].answer = IF MentionsDuplicate(result.text)
                                THEN "DUPLICATE" ELSE "UNIQUE"]
    IN
    /\ pc = "dup_ret"
    /\ UNCHANGED << outsidePipeline, error, fileVars, configVars, sent_headlines, news_items,
                    qualified_news, newly_sent_headlines, judgeVars, files0,
                    runs, historyVars >>
    /\ IF IsDuplicateAnswer(result)
       THEN EndRecord("Dropped", log)
       ELSE /\ pc' = "qual"
            /\ rec_log' = [log EXCEPT ![i].qual_calls = @ + 1]
            /\ stage' = 1
            /\ attempts' = <<>>
            /\ UNCHANGED i

\* _qualify_news_content reads its answer and returns (lines 208-222, 313)
QualifyReturns(result) ==
    /\ pc = "qual_ret"
    /\ qualification' = QualifyResult(result)
    /\ parse' = ParseKind(result)
    /\ pc' = "judge"
    /\ UNCHANGED << outsidePipeline, error, fileVars, configVars, sent_headlines, batchVars, callVars,
                    rec_log, files0, runs, historyVars >>

\* is_qualified (line 314)
IsQualified(q) == Truthy(Get(q, "qualified", "bool:false"))

\* the rest of the loop body (lines 314-326)
Judge ==
    /\ pc = "judge"
    /\ qualification' = EmptyObject
    /\ parse' = "none"
    /\ IF ~Sliceable(Get(qualification, "reasoning", "str:"))
       THEN /\ UNCHANGED << qualified_news, newly_sent_headlines >>
            /\ RaiseInLoop("TypeError", rec_log)
       ELSE IF IsQualified(qualification)
       THEN /\ qualified_news' =
                Append(qualified_news,
                       [idx |-> i, news |-> news_items[i], qualification |-> qualification])
            /\ newly_sent_headlines' = Append(newly_sent_headlines, news_items[i])
            /\ EndRecord("Accepted", rec_log)
            /\ UNCHANGED error
       ELSE /\ UNCHANGED << error, qualified_news, newly_sent_headlines >>
            /\ EndRecord("Rejected", rec_log)
    /\ UNCHANGED << outsidePipeline, fileVars, configVars, sent_headlines, news_items, files0,
                    runs, historyVars >>

\* ------------------------------------------------------- the end of a batch
\* the guard left out: both saves run after every batch
HasNewHeadlines_Always(newly) == TRUE

\* `if newly_sent_headlines:` (line 331)
HasNewHeadlines(newly) == newly # <<>>

\* the batch returned: the titles it accepted, rejected or failed on count as
\* handled by an earlier batch
Returned ==
    /\ pc' = "done"
    /\ processed' = processed \cup
          {news_items[k] : k \in {j \in 1..Len(news_items) : rec_log[j].outcome # "Dropped"}}

\* nothing new: process_news returns without touching a file (lines 331, 339)
ReturnNothingNew ==
    /\ pc = "finish"
    /\ ~HasNewHeadlines(newly_sent_headlines)
    /\ Returned
    /\ UNCHANGED << outsidePipeline, error, fileVars, configVars, sent_headlines, batchVars, judgeVars,
                    callVars, rec_log, files0, runs, logged, log_intact >>

\* self.sent_headlines is not a list: extend raises out of process_news (line 332)
ExtendFails ==
    /\ pc = "finish"
    /\ HasNewHeadlines(newly_sent_headlines)
    /\ ~sent_headlines.isList
    /\ pc' = "raised"
    /\ error' = "AttributeError"
    /\ UNCHANGED << outsidePipeline, fileVars, configVars, sent_headlines, batchVars, judgeVars,
                    callVars, rec_log, files0, runs, historyVars >>

\* the extend left out: the list is saved as it was loaded
HeadlinesToSave_OldOnly(old, newly) == old

\* the new titles put in front of the list
HeadlinesToSave_NewFirst(old, newly) == newly \o old

\* the list _save_sent_headlines writes (lines 332-333, 111-112)
HeadlinesToSave(old, newly) == old \o newly

\* extend and _save_sent_headlines (lines 332-333)
SaveSentHeadlines ==
    /\ pc = "finish"
    /\ HasNewHeadlines(newly_sent_headlines)
    /\ sent_headlines.isList
    /\ sent_headlines' = PyList(HeadlinesToSave(sent_headlines.items, newly_sent_headlines))
    /\ headlines_file' = HFile("list", sent_headlines'.items)
    /\ logged' = logged \cup Range(newly_sent_headlines)
    /\ pc' = "save_csv"
    /\ UNCHANGED << outsidePipeline, error, qualified_file, configVars, batchVars, judgeVars, callVars,
                    rec_log, files0, runs, processed, log_intact >>

\* the write of the headline log fails: open() fails and the file stays, or the
\* file is truncated and left incomplete; the OSError leaves process_news
SaveSentHeadlinesFails(truncated) ==
    /\ pc = "finish"
    /\ HasNewHeadlines(newly_sent_headlines)
    /\ sent_headlines.isList
    /\ sent_headlines' = PyList(HeadlinesToSave(sent_headlines.items, newly_sent_headlines))
    /\ headlines_file' = IF truncated THEN HFile("malformed", <<>>) ELSE headlines_file
    /\ log_intact' = FALSE
    /\ pc' = "raised"
    /\ error' = "OSError"
    /\ UNCHANGED << outsidePipeline, qualified_file, configVars, batchVars, judgeVars, callVars,
                    rec_log, files0, runs, processed, logged >>

\* a row of qualified_news.csv: the title and the tag column (lines 369-382)
Row(item) == [title |-> item.news, tag |-> Get(item.qualification, "tag", "")]

\* the file opened for appending: the rows of the table stay in front
RowsToSave_KeepOld(items) ==
    qualified_file.rows \o [k \in 1..Len(items) |-> Row(items[k])]

\* the rows _save_qualified_news writes (lines 366-382)
RowsToSave(items) == [k \in 1..Len(items) |-> Row(items[k])]

\* _save_qualified_news (lines 336, 341-384), then process_news returns
SaveQualifiedNews ==
    /\ pc = "save_csv"
    /\ qualified_file' =
         IF qualified_news = <<>> THEN qualified_file
         ELSE [kind |-> "table", rows |-> RowsToSave(qualified_news)]
    /\ Returned
    /\ UNCHANGED << outsidePipeline, error, headlines_file, configVars, sent_headlines, batchVars,
                    judgeVars, callVars, rec_log, files0, runs, logged, log_intact >>

\* the write of the table fails: the file stays or is left incomplete
SaveQualifiedNewsFails(truncated) ==
    /\ pc = "save_csv"
    /\ qualified_news # <<>>
    /\ qualified_file' = IF truncated THEN [kind |-> "partial", rows |-> <<>>]
                         ELSE qualified_file
    /\ pc' = "raised"
    /\ error' = "OSError"
    /\ UNCHANGED << outsidePipeline, headlines_file, configVars, sent_headlines, batchVars, judgeVars,
                    callVars, rec_log, files0, runs, historyVars >>

\* ---------------------------------------------------------- specification
\* the steps of a constructed pipeline, for the batches and the model
\* responses given
Run(batches, responses) ==
    \/ \E items \in batches : ProcessNews(items)
    \/ SkipStage
    \/ StageFails
    \/ StageReturns
    \/ AllFailed
    \/ \E result \in responses : DupCheckReturns(result)
    \/ \E result \in responses : QualifyReturns(result)
    \/ Judge
    \/ ReturnNothingNew
    \/ ExtendFails
    \/ SaveSentHeadlines
    \/ \E truncated \in BOOLEAN : SaveSentHeadlinesFails(truncated)
    \/ SaveQualifiedNews
    \/ \E truncated \in BOOLEAN : SaveQualifiedNewsFails(truncated)

\* One process, as main() runs it: a pipeline is constructed (with or without a
\* Gemini key, no client library) and handles one batch; any response.
Next ==
    \/ \E arg_gm \in {NoneV, "sk-key"} :
          Construct(NoneV, NoneV, arg_gm, NoneV, FALSE, FALSE)
    \/ Run(Batches(MaxBatchLen), Responses)

Spec == Init /\ [][Next]_vars

\* One process with any arguments, environment and client libraries, a short
\* batch and a model that answers as asked: the fallback chain in every
\* configuration.
NextCall ==
    \/ \E arg_ds, env_ds, arg_gm, env_gm \in KeyValues, ds_client, gm_client \in BOOLEAN :
          Construct(arg_ds, env_ds, arg_gm, env_gm, ds_client, gm_client)
    \/ Run(Batches(MaxCallBatchLen), PlainResponses)

SpecCall == Init /\ [][NextCall]_vars

\* Several processes one after the other on the same two files, each with a
\* Gemini key and a short batch, and a model that answers as asked.
NextRuns ==
    \/ Construct(NoneV, NoneV, "sk-key", NoneV, FALSE, FALSE)
    \/ Exit
    \/ Run(Batches(MaxRunBatchLen), PlainResponses)

SpecRuns == Init /\ [][NextRuns]_vars

\* ================================================================ bse_scraper2.py
\* The relevance filter and the three extractors of the BSE scraper. A text is
\* a sequence of characters, each a one-character string ("rupee" is the rupee
\* sign).

\* texts of up to this many words
MaxWords == 2

UpperLetters ==
    << "A", "B", "C", "D", "E", "F", "G", "H", "I", "J", "K", "L", "M",
       "N", "O", "P", "Q", "R", "S", "T", "U", "V", "W", "X", "Y", "Z" >>

LowerLetters ==
    << "a", "b", "c", "d", "e", "f", "g", "h", "i", "j", "k", "l", "m",
       "n", "o", "p", "q", "r", "s", "t", "u", "v", "w", "x", "y", "z" >>

Digits == {"0", "1", "2", "3", "4", "5", "6", "7", "8", "9"}

\* the characters \s matches
Whitespace == {" "}

ToLower ==
    [c \in Range(UpperLetters) |->
        LowerLetters[CHOOSE k \in 1..Len(UpperLetters) : UpperLetters[k] = c]]

ToUpper ==
    [c \in Range(LowerLetters) |->
        UpperLetters[CHOOSE k \in 1..Len(LowerLetters) : LowerLetters[k] = c]]

\* str.lower()
StrLower(text) ==
    [k \in 1..Len(text) |-> IF text[k] \in DOMAIN ToLower THEN ToLower[text[k]] ELSE text[k]]

\* whether sub starts at position p of text
StartsAt(sub, text, p) ==
    /\ p + Len(sub) - 1 <= Len(text)
    /\ \A k \in 1..Len(sub) : text[p + k - 1] = sub[k]

\* `sub in text` for strings
InStr(sub, text) == \E p \in 1..(Len(text) + 1) : StartsAt(sub, text, p)

\* any(keyword.lower() in text for keyword in keywords)
AnyKeywordLower(keywords, text) ==
    \E k \in 1..Len(keywords) : InStr(StrLower(keywords[k]), text)

\* any(keyword in text for keyword in keywords)
AnyKeyword(keywords, text) == \E k \in 1..Len(keywords) : InStr(keywords[k], text)

\* INFRA_KEYWORDS, in the order of the source
INFRA_KEYWORDS ==
    <<
      <<"s", "t", "e", "e", "l">>,
      <<"s", "t", "a", "i", "n", "l", "e", "s", "s", " ", "s", "t", "e", "e", "l">>,
      <<"m", "e", "t", "a", "l">>,
      <<"m", "e", "t", "a", "l", "l", "u", "r", "g", "y">>,
      <<"i", "r", "o", "n">>,
      <<"o", "r", "e">>,
      <<"p", "i", "g", " ", "i", "r", "o", "n">>,
      <<"s", "p", "o", "n", "g", "e", " ", "i", "r", "o", "n">>,
      <<"s", "t", "e", "e", "l", " ", "p", "l", "a", "n", "t">>,
      <<"r", "o", "l", "l", "i", "n", "g", " ", "m", "i", "l", "l">>,
      <<"f", "u", "r", "n", "a", "c", "e">>,
      <<"s", "t", "e", "e", "l", " ", "c", "a", "p", "a", "c", "i", "t", "y">>,
      <<"s", "t", "e", "e", "l", " ", "p", "r", "o", "d", "u", "c", "t", "i", "o", "n">>,
      <<"s", "t", "e", "e", "l", " ", "m", "a", "n", "u", "f", "a", "c", "t", "u", "r", "i", "n", "g">>,
      <<"f", "a", "c", "t", "o", "r", "y">>,
      <<"p", "l", "a", "n", "t">>,
      <<"p", "r", "o", "d", "u", "c", "t", "i", "o", "n">>,
      <<"m", "a", "n", "u", "f", "a", "c", "t", "u", "r", "i", "n", "g">>,
      <<"a", "s", "s", "e", "m", "b", "l", "y", " ", "l", "i", "n", "e">>,
      <<"c", "a", "p", "a", "c", "i", "t", "y", " ", "e", "x", "p", "a", "n", "s", "i", "o", "n">>,
      <<"n", "e", "w", " ", "f", "a", "c", "i", "l", "i", "t", "y">>,
      <<"g", "r", "e", "e", "n", "f", "i", "e", "l", "d">>,
      <<"b", "r", "o", "w", "n", "f", "i", "e", "l", "d">>,
      <<"p", "r", "o", "d", "u", "c", "t", "i", "o", "n", " ", "c", "a", "p", "a", "c", "i", "t", "y">>,
      <<"m", "a", "n", "u", "f", "a", "c", "t", "u", "r", "i", "n", "g", " ", "u", "n", "i", "t">>,
      <<"i", "n", "d", "u", "s", "t", "r", "i", "a", "l", " ", "u", "n", "i", "t">>,
      <<"c", "o", "m", "m", "i", "s", "s", "i", "o", "n", "i", "n", "g">>,
      <<"c", "o", "m", "m", "e", "r", "c", "i", "a", "l", " ", "p", "r", "o", "d", "u", "c", "t", "i", "o", "n">>,
      <<"t", "r", "i", "a", "l", " ", "p", "r", "o", "d", "u", "c", "t", "i", "o", "n">>,
      <<"a", "u", "t", "o", "m", "o", "t", "i", "v", "e">>,
      <<"v", "e", "h", "i", "c", "l", "e">>,
      <<"c", "a", "r">>,
      <<"t", "r", "u", "c", "k">>,
      <<"b", "u", "s">>,
      <<"t", "w", "o", "-", "w", "h", "e", "e", "l", "e", "r">>,
      <<"e", "l", "e", "c", "t", "r", "i", "c", " ", "v", "e", "h", "i", "c", "l", "e">>,
      <<"e", "v">>,
      <<"a", "u", "t", "o", "m", "o", "b", "i", "l", "e">>,
      <<"a", "u", "t", "o", " ", "c", "o", "m", "p", "o", "n", "e", "n", "t">>,
      <<"v", "e", "h", "i", "c", "l", "e", " ", "p", "r", "o", "d", "u", "c", "t", "i", "o", "n">>,
      <<"c", "a", "r", " ", "m", "a", "n", "u", "f", "a", "c", "t", "u", "r", "i", "n", "g">>,
      <<"a", "s", "s", "e", "m", "b", "l", "y", " ", "p", "l", "a", "n", "t">>,
      <<"i", "n", "f", "r", "a", "s", "t", "r", "u", "c", "t", "u", "r", "e">>,
      <<"c", "o", "n", "s", "t", "r", "u", "c", "t", "i", "o", "n">>,
      <<"p", "r", "o", "j", "e", "c", "t">>,
      <<"c", "i", "v", "i", "l", " ", "w", "o", "r", "k", "s">>,
      <<"b", "u", "i", "l", "d", "i", "n", "g">>,
      <<"d", "e", "v", "e", "l", "o", "p", "m", "e", "n", "t">>,
      <<"i", "n", "f", "r", "a", "s", "t", "r", "u", "c", "t", "u", "r", "e", " ", "w", "o", "r", "k">>,
      <<"c", "o", "n", "s", "t", "r", "u", "c", "t", "i", "o", "n", " ", "w", "o", "r", "k">>,
      <<"i", "n", "f", "r", "a", " ", "p", "r", "o", "j", "e", "c", "t">>,
      <<"i", "n", "f", "r", "a", "s", "t", "r", "u", "c", "t", "u", "r", "e", " ", "d", "e", "v", "e", "l", "o", "p", "m", "e", "n", "t">>,
      <<"c", "i", "v", "i", "l", " ", "c", "o", "n", "s", "t", "r", "u", "c", "t", "i", "o", "n">>,
      <<"h", "i", "g", "h", "w", "a", "y">>,
      <<"r", "o", "a", "d">>,
      <<"b", "r", "i", "d", "g", "e">>,
      <<"m", "e", "t", "r", "o">>,
      <<"r", "a", "i", "l", "w", "a", "y">>,
      <<"a", "i", "r", "p", "o", "r", "t">>,
      <<"p", "o", "r", "t">>,
      <<"t", "e", "r", "m", "i", "n", "a", "l">>,
      <<"t", "r", "a", "n", "s", "p", "o", "r", "t">>,
      <<"f", "l", "y", "o", "v", "e", "r">>,
      <<"t", "u", "n", "n", "e", "l">>,
      <<"s", "t", "a", "t", "i", "o", "n">>,
      <<"r", "a", "i", "l", " ", "c", "o", "r", "r", "i", "d", "o", "r">>,
      <<"e", "x", "p", "r", "e", "s", "s", "w", "a", "y">>,
      <<"r", "o", "a", "d", "w", "a", "y">>,
      <<"f", "r", "e", "i", "g", "h", "t", " ", "c", "o", "r", "r", "i", "d", "o", "r">>,
      <<"p", "o", "w", "e", "r", " ", "p", "l", "a", "n", "t">>,
      <<"e", "n", "e", "r", "g", "y">>,
      <<"s", "o", "l", "a", "r">>,
      <<"w", "i", "n", "d">>,
      <<"t", "r", "a", "n", "s", "m", "i", "s", "s", "i", "o", "n">>,
      <<"s", "u", "b", "s", "t", "a", "t", "i", "o", "n">>,
      <<"r", "e", "n", "e", "w", "a", "b", "l", "e">>,
      <<"h", "y", "d", "r", "o">>,
      <<"t", "h", "e", "r", "m", "a", "l">>,
      <<"e", "l", "e", "c", "t", "r", "i", "c", "i", "t", "y">>,
      <<"p", "o", "w", "e", "r", " ", "g", "e", "n", "e", "r", "a", "t", "i", "o", "n">>,
      <<"p", "o", "w", "e", "r", " ", "p", "r", "o", "j", "e", "c", "t">>,
      <<"s", "o", "l", "a", "r", " ", "p", "a", "r", "k">>,
      <<"w", "i", "n", "d", " ", "f", "a", "r", "m">>,
      <<"p", "o", "w", "e", "r", " ", "t", "r", "a", "n", "s", "m", "i", "s", "s", "i", "o", "n">>,
      <<"p", "o", "w", "e", "r", " ", "d", "i", "s", "t", "r", "i", "b", "u", "t", "i", "o", "n">>,
      <<"g", "r", "i", "d">>,
      <<"m", "e", "g", "a", "w", "a", "t", "t">>,
      <<"s", "m", "a", "r", "t", " ", "c", "i", "t", "y">>,
      <<"u", "r", "b", "a", "n">>,
      <<"t", "o", "w", "n", "s", "h", "i", "p">>,
      <<"m", "u", "n", "i", "c", "i", "p", "a", "l">>,
      <<"c", "i", "t", "y", " ", "d", "e", "v", "e", "l", "o", "p", "m", "e", "n", "t">>,
      <<"r", "e", "a", "l", " ", "e", "s", "t", "a", "t", "e">>,
      <<"r", "e", "s", "i", "d", "e", "n", "t", "i", "a", "l">>,
      <<"c", "o", "m", "m", "e", "r", "c", "i", "a", "l">>,
      <<"i", "n", "d", "u", "s", "t", "r", "i", "a", "l">>,
      <<"h", "o", "u", "s", "i", "n", "g">>,
      <<"p", "r", "o", "p", "e", "r", "t", "y", " ", "d", "e", "v", "e", "l", "o", "p", "m", "e", "n", "t">>,
      <<"m", "i", "x", "e", "d", "-", "u", "s", "e">>,
      <<"t", "e", "c", "h", " ", "p", "a", "r", "k">>,
      <<"i", "t", " ", "p", "a", "r", "k">>,
      <<"s", "e", "z">>,
      <<"s", "p", "e", "c", "i", "a", "l", " ", "e", "c", "o", "n", "o", "m", "i", "c", " ", "z", "o", "n", "e">>,
      <<"w", "a", "t", "e", "r", " ", "s", "u", "p", "p", "l", "y">>,
      <<"w", "a", "t", "e", "r", " ", "t", "r", "e", "a", "t", "m", "e", "n", "t">>,
      <<"s", "e", "w", "a", "g", "e">>,
      <<"i", "r", "r", "i", "g", "a", "t", "i", "o", "n">>,
      <<"p", "i", "p", "e", "l", "i", "n", "e">>,
      <<"w", "a", "t", "e", "r", " ", "p", "r", "o", "j", "e", "c", "t">>,
      <<"d", "e", "s", "a", "l", "i", "n", "a", "t", "i", "o", "n">>,
      <<"e", "f", "f", "l", "u", "e", "n", "t">>,
      <<"w", "a", "t", "e", "r", " ", "i", "n", "f", "r", "a", "s", "t", "r", "u", "c", "t", "u", "r", "e">>,
      <<"d", "r", "a", "i", "n", "a", "g", "e">>,
      <<"r", "e", "s", "e", "r", "v", "o", "i", "r">>,
      <<"o", "r", "d", "e", "r">>,
      <<"c", "o", "n", "t", "r", "a", "c", "t">>,
      <<"a", "w", "a", "r", "d", "e", "d">>,
      <<"s", "e", "c", "u", "r", "e", "d">>,
      <<"b", "a", "g", "g", "e", "d">>,
      <<"t", "e", "n", "d", "e", "r">>,
      <<"b", "i", "d">>,
      <<"L", "O", "A">>,
      <<"l", "e", "t", "t", "e", "r", " ", "o", "f", " ", "a", "w", "a", "r", "d">>,
      <<"w", "o", "r", "k", " ", "o", "r", "d", "e", "r">>,
      <<"o", "r", "d", "e", "r", " ", "w", "i", "n">>,
      <<"n", "e", "w", " ", "o", "r", "d", "e", "r">>,
      <<"c", "o", "n", "t", "r", "a", "c", "t", " ", "w", "i", "n">>,
      <<"p", "r", "o", "j", "e", "c", "t", " ", "w", "i", "n">>,
      <<"o", "r", "d", "e", "r", " ", "b", "o", "o", "k">>,
      <<"o", "r", "d", "e", "r", " ", "i", "n", "f", "l", "o", "w">>,
      <<"o", "r", "d", "e", "r", " ", "r", "e", "c", "e", "i", "v", "e", "d">>,
      <<"E", "P", "C">>,
      <<"e", "n", "g", "i", "n", "e", "e", "r", "i", "n", "g">>,
      <<"p", "r", "o", "c", "u", "r", "e", "m", "e", "n", "t">>,
      <<"t", "e", "c", "h", "n", "i", "c", "a", "l">>,
      <<"d", "e", "s", "i", "g", "n", " ", "b", "u", "i", "l", "d">>,
      <<"t", "u", "r", "n", "k", "e", "y">>,
      <<"d", "e", "s", "i", "g", "n", " ", "a", "n", "d", " ", "b", "u", "i", "l", "d">>,
      <<"e", "n", "g", "i", "n", "e", "e", "r", "i", "n", "g", " ", "w", "o", "r", "k", "s">>,
      <<"c", "e", "m", "e", "n", "t">>,
      <<"c", "h", "e", "m", "i", "c", "a", "l">>,
      <<"r", "e", "f", "i", "n", "e", "r", "y">>,
      <<"p", "e", "t", "r", "o", "c", "h", "e", "m", "i", "c", "a", "l">>,
      <<"t", "e", "x", "t", "i", "l", "e">>,
      <<"p", "h", "a", "r", "m", "a">>,
      <<"f", "o", "o", "d", " ", "p", "r", "o", "c", "e", "s", "s", "i", "n", "g">>,
      <<"i", "n", "d", "u", "s", "t", "r", "i", "a", "l", " ", "p", "a", "r", "k">>,
      <<"l", "o", "g", "i", "s", "t", "i", "c", "s", " ", "p", "a", "r", "k">>,
      <<"w", "a", "r", "e", "h", "o", "u", "s", "e">>,
      <<"s", "t", "o", "r", "a", "g", "e", " ", "t", "e", "r", "m", "i", "n", "a", "l">>,
      <<"d", "a", "t", "a", " ", "c", "e", "n", "t", "e", "r">>,
      <<"i", "n", "d", "u", "s", "t", "r", "i", "a", "l", " ", "c", "o", "r", "r", "i", "d", "o", "r">>,
      <<"c", "r", "o", "r", "e">>,
      <<"m", "i", "l", "l", "i", "o", "n">>,
      <<"b", "i", "l", "l", "i", "o", "n">>,
      <<"v", "a", "l", "u", "e">>,
      <<"w", "o", "r", "t", "h">>,
      <<"c", "a", "p", "a", "c", "i", "t", "y">>,
      <<"t", "o", "n", "n", "e", "s">>,
      <<"t", "o", "n", "s">>,
      <<"t", "p", "a">>,
      <<"m", "t", "p", "a">>,
      <<"m", "w">>,
      <<"g", "w">>,
      <<"s", "q", "f", "t">>,
      <<"a", "c", "r", "e", "s">>
    >>

\* EXCLUDE_KEYWORDS
EXCLUDE_KEYWORDS ==
    <<
      <<"t", "r", "a", "d", "i", "n", "g", " ", "w", "i", "n", "d", "o", "w">>,
      <<"b", "o", "a", "r", "d", " ", "m", "e", "e", "t", "i", "n", "g">>,
      <<"a", "g", "m">>,
      <<"e", "g", "m">>,
      <<"p", "o", "s", "t", "a", "l", " ", "b", "a", "l", "l", "o", "t">>,
      <<"i", "n", "v", "e", "s", "t", "o", "r", " ", "m", "e", "e", "t">>,
      <<"i", "n", "v", "e", "s", "t", "o", "r", " ", "p", "r", "e", "s", "e", "n", "t", "a", "t", "i", "o", "n">>,
      <<"a", "n", "n", "u", "a", "l", " ", "r", "e", "p", "o", "r", "t">>,
      <<"q", "u", "a", "r", "t", "e", "r", "l", "y", " ", "r", "e", "s", "u", "l", "t", "s">>,
      <<"f", "i", "n", "a", "n", "c", "i", "a", "l", " ", "r", "e", "s", "u", "l", "t", "s">>,
      <<"d", "i", "v", "i", "d", "e", "n", "d">>,
      <<"c", "o", "m", "p", "l", "i", "a", "n", "c", "e">>,
      <<"r", "e", "g", "u", "l", "a", "t", "i", "o", "n", " ", "3", "0">>,
      <<"s", "e", "b", "i">>,
      <<"d", "i", "s", "c", "l", "o", "s", "u", "r", "e", " ", "r", "e", "q", "u", "i", "r", "e", "m", "e", "n", "t", "s">>,
      <<"l", "i", "s", "t", "i", "n", "g", " ", "o", "b", "l", "i", "g", "a", "t", "i", "o", "n", "s">>,
      <<"c", "o", "r", "p", "o", "r", "a", "t", "e", " ", "g", "o", "v", "e", "r", "n", "a", "n", "c", "e">>,
      <<"a", "p", "p", "o", "i", "n", "t", "m", "e", "n", "t">>,
      <<"r", "e", "s", "i", "g", "n", "a", "t", "i", "o", "n">>,
      <<"k", "e", "y", " ", "m", "a", "n", "a", "g", "e", "r", "i", "a", "l">>,
      <<"d", "i", "r", "e", "c", "t", "o", "r">>,
      <<"c", "o", "m", "p", "a", "n", "y", " ", "s", "e", "c", "r", "e", "t", "a", "r", "y">>,
      <<"a", "u", "d", "i", "t", "o", "r">>,
      <<"c", "l", "o", "s", "u", "r", "e", " ", "o", "f", " ", "r", "e", "g", "i", "s", "t", "e", "r">>,
      <<"c", "r", "e", "d", "i", "t", " ", "r", "a", "t", "i", "n", "g">>,
      <<"s", "h", "a", "r", "e", " ", "t", "r", "a", "n", "s", "f", "e", "r">>,
      <<"s", "h", "a", "r", "e", "h", "o", "l", "d", "i", "n", "g", " ", "p", "a", "t", "t", "e", "r", "n">>,
      <<"c", "e", "r", "t", "i", "f", "i", "c", "a", "t", "e">>,
      <<"i", "n", "t", "i", "m", "a", "t", "i", "o", "n">>,
      <<"c", "l", "a", "r", "i", "f", "i", "c", "a", "t", "i", "o", "n">>,
      <<"t", "r", "a", "d", "i", "n", "g", " ", "u", "p", "d", "a", "t", "e">>,
      <<"b", "u", "s", "i", "n", "e", "s", "s", " ", "u", "p", "d", "a", "t", "e">>,
      <<"c", "o", "v", "i", "d", " ", "u", "p", "d", "a", "t", "e">>,
      <<"o", "p", "e", "r", "a", "t", "i", "o", "n", "a", "l", " ", "u", "p", "d", "a", "t", "e">>,
      <<"s", "t", "a", "t", "u", "s", " ", "u", "p", "d", "a", "t", "e">>,
      <<"p", "r", "o", "g", "r", "e", "s", "s", " ", "u", "p", "d", "a", "t", "e">>
    >>

\* PROJECT_TYPE_MAPPING: the keywords in the order of the dictionary, each with
\* its project type
PROJECT_TYPE_MAPPING ==
    <<
      [keyword |-> <<"s", "o", "l", "a", "r">>,
       project_type |-> "Renewable Energy - Solar"],
      [keyword |-> <<"s", "o", "l", "a", "r", " ", "p", "a", "r", "k">>,
       project_type |-> "Renewable Energy - Solar"],
      [keyword |-> <<"s", "o", "l", "a", "r", " ", "p", "o", "w", "e", "r">>,
       project_type |-> "Renewable Energy - Solar"],
      [keyword |-> <<"s", "o", "l", "a", "r", " ", "p", "l", "a", "n", "t">>,
       project_type |-> "Renewable Energy - Solar"],
      [keyword |-> <<"s", "o", "l", "a", "r", " ", "p", "r", "o", "j", "e", "c", "t">>,
       project_type |-> "Renewable Energy - Solar"],
      [keyword |-> <<"s", "o", "l", "a", "r", " ", "e", "n", "e", "r", "g", "y">>,
       project_type |-> "Renewable Energy - Solar"],
      [keyword |-> <<"w", "i", "n", "d">>,
       project_type |-> "Renewable Energy - Wind"],
      [keyword |-> <<"w", "i", "n", "d", " ", "f", "a", "r", "m">>,
       project_type |-> "Renewable Energy - Wind"],
      [keyword |-> <<"w", "i", "n", "d", " ", "p", "o", "w", "e", "r">>,
       project_type |-> "Renewable Energy - Wind"],
      [keyword |-> <<"w", "i", "n", "d", " ", "e", "n", "e", "r", "g", "y">>,
       project_type |-> "Renewable Energy - Wind"],
      [keyword |-> <<"h", "y", "d", "r", "o">>,
       project_type |-> "Renewable Energy - Hydro"],
      [keyword |-> <<"h", "y", "d", "r", "o", "e", "l", "e", "c", "t", "r", "i", "c">>,
       project_type |-> "Renewable Energy - Hydro"],
      [keyword |-> <<"h", "y", "d", "r", "o", "p", "o", "w", "e", "r">>,
       project_type |-> "Renewable Energy - Hydro"],
      [keyword |-> <<"t", "h", "e", "r", "m", "a", "l">>,
       project_type |-> "Power - Thermal"],
      [keyword |-> <<"c", "o", "a", "l">>,
       project_type |-> "Power - Thermal"],
      [keyword |-> <<"g", "a", "s">>,
       project_type |-> "Power - Thermal/Gas"],
      [keyword |-> <<"p", "o", "w", "e", "r", " ", "p", "l", "a", "n", "t">>,
       project_type |-> "Power Generation"],
      [keyword |-> <<"p", "o", "w", "e", "r", " ", "g", "e", "n", "e", "r", "a", "t", "i", "o", "n">>,
       project_type |-> "Power Generation"],
      [keyword |-> <<"e", "l", "e", "c", "t", "r", "i", "c", "i", "t", "y">>,
       project_type |-> "Power Generation"],
      [keyword |-> <<"t", "r", "a", "n", "s", "m", "i", "s", "s", "i", "o", "n">>,
       project_type |-> "Power Transmission"],
      [keyword |-> <<"s", "u", "b", "s", "t", "a", "t", "i", "o", "n">>,
       project_type |-> "Power Transmission"],
      [keyword |-> <<"g", "r", "i", "d">>,
       project_type |-> "Power Transmission"],
      [keyword |-> <<"h", "i", "g", "h", "w", "a", "y">>,
       project_type |-> "Transportation - Highway"],
      [keyword |-> <<"e", "x", "p", "r", "e", "s", "s", "w", "a", "y">>,
       project_type |-> "Transportation - Highway"],
      [keyword |-> <<"r", "o", "a", "d">>,
       project_type |-> "Transportation - Road"],
      [keyword |-> <<"r", "o", "a", "d", "w", "a", "y">>,
       project_type |-> "Transportation - Road"],
      [keyword |-> <<"b", "r", "i", "d", "g", "e">>,
       project_type |-> "Transportation - Bridge"],
      [keyword |-> <<"f", "l", "y", "o", "v", "e", "r">>,
       project_type |-> "Transportation - Bridge"],
      [keyword |-> <<"m", "e", "t", "r", "o">>,
       project_type |-> "Transportation - Metro"],
      [keyword |-> <<"r", "a", "i", "l", "w", "a", "y">>,
       project_type |-> "Transportation - Railway"],
      [keyword |-> <<"r", "a", "i", "l">>,
       project_type |-> "Transportation - Railway"],
      [keyword |-> <<"a", "i", "r", "p", "o", "r", "t">>,
       project_type |-> "Transportation - Airport"],
      [keyword |-> <<"p", "o", "r", "t">>,
       project_type |-> "Transportation - Port"],
      [keyword |-> <<"t", "e", "r", "m", "i", "n", "a", "l">>,
       project_type |-> "Transportation - Port/Terminal"],
      [keyword |-> <<"l", "o", "g", "i", "s", "t", "i", "c", "s">>,
       project_type |-> "Transportation - Logistics"],
      [keyword |-> <<"c", "o", "n", "s", "t", "r", "u", "c", "t", "i", "o", "n">>,
       project_type |-> "Construction"],
      [keyword |-> <<"b", "u", "i", "l", "d", "i", "n", "g">>,
       project_type |-> "Construction - Building"],
      [keyword |-> <<"r", "e", "s", "i", "d", "e", "n", "t", "i", "a", "l">>,
       project_type |-> "Construction - Residential"],
      [keyword |-> <<"c", "o", "m", "m", "e", "r", "c", "i", "a", "l">>,
       project_type |-> "Construction - Commercial"],
      [keyword |-> <<"h", "o", "u", "s", "i", "n", "g">>,
       project_type |-> "Construction - Residential"],
      [keyword |-> <<"r", "e", "a", "l", " ", "e", "s", "t", "a", "t", "e">>,
       project_type |-> "Real Estate"],
      [keyword |-> <<"p", "r", "o", "p", "e", "r", "t", "y">>,
       project_type |-> "Real Estate"],
      [keyword |-> <<"t", "o", "w", "n", "s", "h", "i", "p">>,
       project_type |-> "Urban Development"],
      [keyword |-> <<"s", "m", "a", "r", "t", " ", "c", "i", "t", "y">>,
       project_type |-> "Urban Development"],
      [keyword |-> <<"m", "i", "x", "e", "d", "-", "u", "s", "e">>,
       project_type |-> "Real Estate - Mixed Use"],
      [keyword |-> <<"s", "e", "z">>,
       project_type |-> "Special Economic Zone"],
      [keyword |-> <<"i", "n", "d", "u", "s", "t", "r", "i", "a", "l", " ", "p", "a", "r", "k">>,
       project_type |-> "Industrial Park"],
      [keyword |-> <<"t", "e", "c", "h", " ", "p", "a", "r", "k">>,
       project_type |-> "IT/Tech Park"],
      [keyword |-> <<"i", "t", " ", "p", "a", "r", "k">>,
       project_type |-> "IT/Tech Park"],
      [keyword |-> <<"d", "a", "t", "a", " ", "c", "e", "n", "t", "e", "r">>,
       project_type |-> "Data Center"],
      [keyword |-> <<"w", "a", "t", "e", "r", " ", "s", "u", "p", "p", "l", "y">>,
       project_type |-> "Water Infrastructure"],
      [keyword |-> <<"w", "a", "t", "e", "r", " ", "t", "r", "e", "a", "t", "m", "e", "n", "t">>,
       project_type |-> "Water Infrastructure"],
      [keyword |-> <<"s", "e", "w", "a", "g", "e">>,
       project_type |-> "Water Infrastructure"],
      [keyword |-> <<"i", "r", "r", "i", "g", "a", "t", "i", "o", "n">>,
       project_type |-> "Water Infrastructure"],
      [keyword |-> <<"p", "i", "p", "e", "l", "i", "n", "e">>,
       project_type |-> "Pipeline"],
      [keyword |-> <<"w", "a", "t", "e", "r", " ", "p", "r", "o", "j", "e", "c", "t">>,
       project_type |-> "Water Infrastructure"],
      [keyword |-> <<"d", "e", "s", "a", "l", "i", "n", "a", "t", "i", "o", "n">>,
       project_type |-> "Water Infrastructure"],
      [keyword |-> <<"d", "r", "a", "i", "n", "a", "g", "e">>,
       project_type |-> "Water Infrastructure"],
      [keyword |-> <<"r", "e", "s", "e", "r", "v", "o", "i", "r">>,
       project_type |-> "Water Infrastructure"],
      [keyword |-> <<"s", "t", "e", "e", "l">>,
       project_type |-> "Manufacturing - Steel"],
      [keyword |-> <<"i", "r", "o", "n">>,
       project_type |-> "Manufacturing - Steel"],
      [keyword |-> <<"m", "e", "t", "a", "l">>,
       project_type |-> "Manufacturing - Metal"],
      [keyword |-> <<"m", "e", "t", "a", "l", "l", "u", "r", "g", "y">>,
       project_type |-> "Manufacturing - Metal"],
      [keyword |-> <<"c", "e", "m", "e", "n", "t">>,
       project_type |-> "Manufacturing - Cement"],
      [keyword |-> <<"c", "h", "e", "m", "i", "c", "a", "l">>,
       project_type |-> "Manufacturing - Chemical"],
      [keyword |-> <<"p", "e", "t", "r", "o", "c", "h", "e", "m", "i", "c", "a", "l">>,
       project_type |-> "Manufacturing - Petrochemical"],
      [keyword |-> <<"r", "e", "f", "i", "n", "e", "r", "y">>,
       project_type |-> "Manufacturing - Refinery"],
      [keyword |-> <<"t", "e", "x", "t", "i", "l", "e">>,
       project_type |-> "Manufacturing - Textile"],
      [keyword |-> <<"p", "h", "a", "r", "m", "a">>,
       project_type |-> "Manufacturing - Pharmaceutical"],
      [keyword |-> <<"f", "o", "o", "d", " ", "p", "r", "o", "c", "e", "s", "s", "i", "n", "g">>,
       project_type |-> "Manufacturing - Food Processing"],
      [keyword |-> <<"f", "a", "c", "t", "o", "r", "y">>,
       project_type |-> "Manufacturing"],
      [keyword |-> <<"p", "l", "a", "n", "t">>,
       project_type |-> "Manufacturing"],
      [keyword |-> <<"m", "a", "n", "u", "f", "a", "c", "t", "u", "r", "i", "n", "g">>,
       project_type |-> "Manufacturing"],
      [keyword |-> <<"p", "r", "o", "d", "u", "c", "t", "i", "o", "n">>,
       project_type |-> "Manufacturing"],
      [keyword |-> <<"i", "n", "f", "r", "a", "s", "t", "r", "u", "c", "t", "u", "r", "e">>,
       project_type |-> "Infrastructure"],
      [keyword |-> <<"p", "r", "o", "j", "e", "c", "t">>,
       project_type |-> "General Project"],
      [keyword |-> <<"e", "p", "c">>,
       project_type |-> "EPC"],
      [keyword |-> <<"e", "n", "g", "i", "n", "e", "e", "r", "i", "n", "g">>,
       project_type |-> "Engineering Services"],
      [keyword |-> <<"c", "o", "n", "t", "r", "a", "c", "t">>,
       project_type |-> "Contract"],
      [keyword |-> <<"o", "r", "d", "e", "r">>,
       project_type |-> "Order/Contract"]
    >>

\* INDIAN_LOCATIONS, in the order of the source
INDIAN_LOCATIONS ==
    <<
      <<"a", "n", "d", "h", "r", "a", " ", "p", "r", "a", "d", "e", "s", "h">>,
      <<"a", "r", "u", "n", "a", "c", "h", "a", "l", " ", "p", "r", "a", "d", "e", "s", "h">>,
      <<"a", "s", "s", "a", "m">>,
      <<"b", "i", "h", "a", "r">>,
      <<"c", "h", "h", "a", "t", "t", "i", "s", "g", "a", "r", "h">>,
      <<"g", "o", "a">>,
      <<"g", "u", "j", "a", "r", "a", "t">>,
      <<"h", "a", "r", "y", "a", "n", "a">>,
      <<"h", "i", "m", "a", "c", "h", "a", "l", " ", "p", "r", "a", "d", "e", "s", "h">>,
      <<"j", "h", "a", "r", "k", "h", "a", "n", "d">>,
      <<"k", "a", "r", "n", "a", "t", "a", "k", "a">>,
      <<"k", "e", "r", "a", "l", "a">>,
      <<"m", "a", "d", "h", "y", "a", " ", "p", "r", "a", "d", "e", "s", "h">>,
      <<"m", "a", "h", "a", "r", "a", "s", "h", "t", "r", "a">>,
      <<"m", "a", "n", "i", "p", "u", "r">>,
      <<"m", "e", "g", "h", "a", "l", "a", "y", "a">>,
      <<"m", "i", "z", "o", "r", "a", "m">>,
      <<"n", "a", "g", "a", "l", "a", "n", "d">>,
      <<"o", "d", "i", "s", "h", "a">>,
      <<"p", "u", "n", "j", "a", "b">>,
      <<"r", "a", "j", "a", "s", "t", "h", "a", "n">>,
      <<"s", "i", "k", "k", "i", "m">>,
      <<"t", "a", "m", "i", "l", " ", "n", "a", "d", "u">>,
      <<"t", "e", "l", "a", "n", "g", "a", "n", "a">>,
      <<"t", "r", "i", "p", "u", "r", "a">>,
      <<"u", "t", "t", "a", "r", " ", "p", "r", "a", "d", "e", "s", "h">>,
      <<"u", "t", "t", "a", "r", "a", "k", "h", "a", "n", "d">>,
      <<"w", "e", "s", "t", " ", "b", "e", "n", "g", "a", "l">>,
      <<"d", "e", "l", "h", "i">>,
      <<"c", "h", "a", "n", "d", "i", "g", "a", "r", "h">>,
      <<"p", "u", "d", "u", "c", "h", "e", "r", "r", "y">>,
      <<"l", "a", "d", "a", "k", "h">>,
      <<"j", "a", "m", "m", "u", " ", "a", "n", "d", " ", "k", "a", "s", "h", "m", "i", "r">>,
      <<"l", "a", "k", "s", "h", "a", "d", "w", "e", "e", "p">>,
      <<"a", "n", "d", "a", "m", "a", "n", " ", "a", "n", "d", " ", "n", "i", "c", "o", "b", "a", "r">>,
      <<"m", "u", "m", "b", "a", "i">>,
      <<"d", "e", "l", "h", "i">>,
      <<"b", "a", "n", "g", "a", "l", "o", "r", "e">>,
      <<"b", "e", "n", "g", "a", "l", "u", "r", "u">>,
      <<"h", "y", "d", "e", "r", "a", "b", "a", "d">>,
      <<"c", "h", "e", "n", "n", "a", "i">>,
      <<"k", "o", "l", "k", "a", "t", "a">>,
      <<"a", "h", "m", "e", "d", "a", "b", "a", "d">>,
      <<"p", "u", "n", "e">>,
      <<"j", "a", "i", "p", "u", "r">>,
      <<"l", "u", "c", "k", "n", "o", "w">>,
      <<"k", "a", "n", "p", "u", "r">>,
      <<"n", "a", "g", "p", "u", "r">>,
      <<"i", "n", "d", "o", "r", "e">>,
      <<"t", "h", "a", "n", "e">>,
      <<"b", "h", "o", "p", "a", "l">>,
      <<"v", "i", "s", "a", "k", "h", "a", "p", "a", "t", "n", "a", "m">>,
      <<"s", "u", "r", "a", "t">>,
      <<"c", "o", "i", "m", "b", "a", "t", "o", "r", "e">>,
      <<"k", "o", "c", "h", "i">>,
      <<"v", "a", "d", "o", "d", "a", "r", "a">>,
      <<"a", "g", "r", "a">>,
      <<"n", "a", "s", "h", "i", "k">>,
      <<"p", "a", "t", "n", "a">>,
      <<"f", "a", "r", "i", "d", "a", "b", "a", "d">>,
      <<"m", "e", "e", "r", "u", "t">>,
      <<"r", "a", "j", "k", "o", "t">>,
      <<"k", "a", "l", "y", "a", "n">>,
      <<"v", "a", "s", "a", "i">>,
      <<"v", "a", "r", "a", "n", "a", "s", "i">>,
      <<"s", "r", "i", "n", "a", "g", "a", "r">>,
      <<"g", "h", "a", "z", "i", "a", "b", "a", "d">>,
      <<"a", "m", "r", "i", "t", "s", "a", "r">>,
      <<"r", "a", "i", "p", "u", "r">>
    >>

\* value_indicators of is_infrastructure_related (lines 267-268)
value_indicators ==
    <<
      <<"r", "s", ".">>,
      <<"r", "s">>,
      <<"i", "n", "r">>,
      <<"u", "s", "d">>,
      <<"rupee">>,
      <<"$">>,
      <<"c", "r", "o", "r", "e">>,
      <<"m", "i", "l", "l", "i", "o", "n">>,
      <<"b", "i", "l", "l", "i", "o", "n">>,
      <<"t", "o", "n", "n", "e", "s">>,
      <<"t", "o", "n", "s">>,
      <<"t", "p", "a">>,
      <<"m", "t", "p", "a">>,
      <<"m", "w">>,
      <<"g", "w">>,
      <<"s", "q", "f", "t">>,
      <<"a", "c", "r", "e", "s">>
    >>

\* strong_keywords of is_infrastructure_related (lines 272-276)
strong_keywords ==
    <<
      <<"p", "r", "o", "j", "e", "c", "t">>,
      <<"i", "n", "f", "r", "a", "s", "t", "r", "u", "c", "t", "u", "r", "e">>,
      <<"c", "o", "n", "s", "t", "r", "u", "c", "t", "i", "o", "n">>,
      <<"a", "w", "a", "r", "d", "e", "d">>,
      <<"c", "o", "n", "t", "r", "a", "c", "t">>,
      <<"o", "r", "d", "e", "r">>,
      <<"s", "t", "e", "e", "l">>,
      <<"f", "a", "c", "t", "o", "r", "y">>,
      <<"p", "l", "a", "n", "t">>,
      <<"p", "r", "o", "d", "u", "c", "t", "i", "o", "n">>,
      <<"m", "a", "n", "u", "f", "a", "c", "t", "u", "r", "i", "n", "g">>,
      <<"c", "a", "p", "a", "c", "i", "t", "y">>,
      <<"f", "a", "c", "i", "l", "i", "t", "y">>,
      <<"c", "o", "m", "m", "i", "s", "s", "i", "o", "n", "i", "n", "g">>,
      <<"c", "o", "m", "m", "e", "r", "c", "i", "a", "l", " ", "p", "r", "o", "d", "u", "c", "t", "i", "o", "n">>
    >>

\* the exclusion test applied to the title as written
is_infrastructure_related_CaseSensitiveVeto(title_arg, company_arg, security_code) ==
    LET title_lower == StrLower(title_arg)
        company_lower == StrLower(company_arg)
        has_value == AnyKeyword(value_indicators, title_lower)
        has_infra_keyword ==
            \E k \in 1..Len(INFRA_KEYWORDS) :
               \/ InStr(StrLower(INFRA_KEYWORDS[k]), title_lower)
               \/ InStr(StrLower(INFRA_KEYWORDS[k]), company_lower)
    IN IF AnyKeywordLower(EXCLUDE_KEYWORDS, title_arg) THEN FALSE
       ELSE has_infra_keyword /\ (has_value \/ AnyKeyword(strong_keywords, title_lower))

\* the value indicators and strong keywords looked for in the company name too
is_infrastructure_related_CompanySignals(title_arg, company_arg, security_code) ==
    LET title_lower == StrLower(title_arg)
        company_lower == StrLower(company_arg)
        has_value == AnyKeyword(value_indicators, title_lower)
                        \/ AnyKeyword(value_indicators, company_lower)
        has_infra_keyword ==
            \E k \in 1..Len(INFRA_KEYWORDS) :
               \/ InStr(StrLower(INFRA_KEYWORDS[k]), title_lower)
               \/ InStr(StrLower(INFRA_KEYWORDS[k]), company_lower)
    IN IF AnyKeywordLower(EXCLUDE_KEYWORDS, title_lower) THEN FALSE
       ELSE has_infra_keyword /\ (has_value \/ AnyKeyword(strong_keywords, title_lower)
                                            \/ AnyKeyword(strong_keywords, company_lower))

\* is_infrastructure_related (lines 257-285)
is_infrastructure_related(title_arg, company_arg, security_code) ==
    LET title_lower == StrLower(title_arg)
        company_lower == StrLower(company_arg)
        has_value == AnyKeyword(value_indicators, title_lower)
        has_infra_keyword ==
            \E k \in 1..Len(INFRA_KEYWORDS) :
               \/ InStr(StrLower(INFRA_KEYWORDS[k]), title_lower)
               \/ InStr(StrLower(INFRA_KEYWORDS[k]), company_lower)
    IN IF AnyKeywordLower(EXCLUDE_KEYWORDS, title_lower) THEN FALSE
       ELSE has_infra_keyword /\ (has_value \/ AnyKeyword(strong_keywords, title_lower))

\* the keywords of the mapping that occur in the text, in the order of the
\* mapping (lines 292-295)
KeywordMatches(text_lower) ==
    SelectSeq(PROJECT_TYPE_MAPPING, LAMBDA e : InStr(StrLower(e.keyword), text_lower))

\* one step of a stable sort by keyword length, longest first: the match goes
\* behind every match at least as long
InsertByLength(sorted, e) ==
    LET n == Cardinality({k \in 1..Len(sorted) : Len(sorted[k].keyword) >= Len(e.keyword)})
    IN SubSeq(sorted, 1, n) \o <<e>> \o SubSeq(sorted, n + 1, Len(sorted))

RECURSIVE SortedUpTo(_, _)
SortedUpTo(matches, n) ==
    IF n = 0 THEN <<>> ELSE InsertByLength(SortedUpTo(matches, n - 1), matches[n])

\* the matches left in the order of the mapping
SortMatches_Unsorted(matches) == matches

\* matches.sort(key=lambda x: len(x[0]), reverse=True) (line 298)
SortMatches(matches) == SortedUpTo(matches, Len(matches))

\* matches[0][1] without the test for an empty list
extract_project_type_Unguarded(text) ==
    LET text_lower == StrLower(text)
        matches == SortMatches(KeywordMatches(text_lower))
    IN IF matches # <<>> THEN matches[1].project_type ELSE "IndexError"

\* extract_project_type (lines 287-303)
extract_project_type(text) ==
    LET text_lower == StrLower(text)
        matches == SortMatches(KeywordMatches(text_lower))
    IN IF matches # <<>> THEN matches[1].project_type ELSE "Infrastructure Project"

\* ---------------------------------------------------- regular expressions
\* The patterns of the two extractors, as trees, and the positions where a
\* match that starts at position p of a text can end.
Lit(s) == [op |-> "lit", s |-> s]
Class(cs) == [op |-> "class", cs |-> cs]
Alt(rs) == [op |-> "alt", rs |-> rs]
Cat(rs) == [op |-> "cat", rs |-> rs]
Star(r) == [op |-> "star", r |-> r]
Plus(r) == Cat(<<r, Star(r)>>)
Opt(r) == Alt(<<r, Lit(<<>>)>>)

RECURSIVE Ends(_, _, _)
RECURSIVE CatEnds(_, _, _, _)
RECURSIVE StarEnds(_, _, _)

\* the positions just behind a match of r that starts at p
Ends(r, text, p) ==
    CASE r.op = "lit" -> IF StartsAt(r.s, text, p) THEN {p + Len(r.s)} ELSE {}
      [] r.op = "class" -> IF p <= Len(text) /\ text[p] \in r.cs THEN {p + 1} ELSE {}
      [] r.op = "alt" -> UNION {Ends(r.rs[k], text, p) : k \in 1..Len(r.rs)}
      [] r.op = "cat" -> CatEnds(r.rs, text, {p}, 1)
      [] OTHER -> StarEnds(r.r, text, {p})

CatEnds(rs, text, from, k) ==
    IF k > Len(rs) THEN from
    ELSE CatEnds(rs, text, UNION {Ends(rs[k], text, q) : q \in from}, k + 1)

StarEnds(r, text, from) ==
    LET more == UNION {Ends(r, text, q) : q \in from} \ from
    IN IF more = {} THEN from ELSE StarEnds(r, text, from \cup more)

\* the matches of prefix(group)suffix that start at p: where the group starts
\* and ends
GroupsAt(pattern, text, p) ==
    UNION { { <<a, b>> : b \in {e \in Ends(pattern.group, text, a) :
                                  Ends(pattern.suffix, text, e) # {}} } :
            a \in Ends(pattern.prefix, text, p) }

\* re.findall(pattern, text): whether the list is empty, and its element [0],
\* the group of the leftmost match (greedy: the longest the group can be there)
FindAll(pattern, text) ==
    LET starts == {p \in 1..(Len(text) + 1) : GroupsAt(pattern, text, p) # {}}
    IN IF starts = {} THEN [found |-> FALSE, first |-> <<>>]
       ELSE LET p == CHOOSE q \in starts : \A o \in starts : q <= o
                groups == GroupsAt(pattern, text, p)
                ab == CHOOSE g \in groups : \A h \in groups : h[2] <= g[2]
            IN [found |-> TRUE, first |-> SubSeq(text, ab[1], ab[2] - 1)]

\* \s* and \d+(?:,\d+)*(?:\.\d+)?
Spaces == Star(Class(Whitespace))

Number ==
    Cat(<< Plus(Class(Digits)),
           Star(Cat(<<Lit(<<",">>), Plus(Class(Digits))>>)),
           Opt(Cat(<<Lit(<<".">>), Plus(Class(Digits))>>)) >>)

\* rs\.?
RsDot == Cat(<<Lit(<<"r", "s">>), Opt(Lit(<<".">>))>>)

\* cr\.?
CrDot == Cat(<<Lit(<<"c", "r">>), Opt(Lit(<<".">>))>>)

\* crore|cr\.?|lakh|lac|million|mn|billion|bn
MoneyUnits ==
    << Lit(<<"c", "r", "o", "r", "e">>), CrDot, Lit(<<"l", "a", "k", "h">>), Lit(<<"l", "a", "c">>),
       Lit(<<"m", "i", "l", "l", "i", "o", "n">>), Lit(<<"m", "n">>), Lit(<<"b", "i", "l", "l", "i", "o", "n">>), Lit(<<"b", "n">>) >>

\* location_pattern (line 316)
location_pattern ==
    [prefix |-> Cat(<<Lit(<<"i", "n">>), Plus(Class(Whitespace))>>),
     group |-> Cat(<< Class(Range(UpperLetters)), Plus(Class(Range(LowerLetters))),
                      Star(Cat(<< Plus(Class(Whitespace)), Class(Range(UpperLetters)),
                                  Plus(Class(Range(LowerLetters))) >>)) >>),
     suffix |-> Lit(<<>>)]

\* inr_pattern (line 329)
inr_pattern ==
    [prefix |-> Cat(<<Alt(<<RsDot, Lit(<<"i", "n", "r">>), Lit(<<"rupee">>)>>), Spaces>>),
     group |-> Number,
     suffix |-> Cat(<<Spaces, Alt(MoneyUnits)>>)]

\* usd_pattern (line 333)
usd_pattern ==
    [prefix |-> Cat(<<Alt(<<Lit(<<"u", "s", "d">>), Lit(<<"$">>)>>), Spaces>>),
     group |-> Number,
     suffix |-> Cat(<<Spaces, Alt(<<Lit(<<"m", "i", "l", "l", "i", "o", "n">>), Lit(<<"m", "n">>), Lit(<<"b", "i", "l", "l", "i", "o", "n">>), Lit(<<"b", "n">>)>>)>>)]

\* value_pattern (line 337)
value_pattern ==
    [prefix |-> Lit(<<>>),
     group |-> Number,
     suffix |-> Cat(<<Spaces, Alt(MoneyUnits \o <<Lit(<<"m", "w">>), Lit(<<"g", "w">>), Lit(<<"m", "w", "p">>)>>)>>)]

\* value_of_pattern (line 341)
value_of_pattern ==
    [prefix |-> Cat(<< Alt(<< Lit(<<"v", "a", "l", "u", "e">>), Lit(<<"w", "o", "r", "t", "h">>), Lit(<<"a", "m", "o", "u", "n", "t">>), Lit(<<"o", "r", "d", "e", "r", " ", "v", "a", "l", "u", "e">>),
                              Lit(<<"c", "o", "n", "t", "r", "a", "c", "t", " ", "v", "a", "l", "u", "e">>), Lit(<<"s", "i", "z", "e">>) >>),
                       Lit(<<" ", "o", "f", " ">>),
                       Opt(Alt(<<RsDot, Lit(<<"i", "n", "r">>), Lit(<<"rupee">>), Lit(<<"u", "s", "d">>), Lit(<<"$">>)>>)),
                       Spaces >>),
     group |-> Number,
     suffix |-> Cat(<<Spaces, Alt(MoneyUnits)>>)]

\* ------------------------------------------------------------- extractors
\* str.title() of a gazetteer term: the first letter of every word in upper case
StrTitle(text) ==
    [k \in 1..Len(text) |->
        IF text[k] \in DOMAIN ToUpper /\ (k = 1 \/ text[k - 1] \notin DOMAIN ToUpper)
        THEN ToUpper[text[k]] ELSE text[k]]

\* the gazetteer terms that occur in the text, in the order of the gazetteer
LocationsIn(text_lower) ==
    SelectSeq(INDIAN_LOCATIONS, LAMBDA location : InStr(location, text_lower))

\* a variant that tries the "in <Place>" pattern before the gazetteer
extract_location_PatternFirst(text) ==
    LET text_lower == StrLower(text)
        locations == LocationsIn(text_lower)
        matches == FindAll(location_pattern, text)
    IN IF matches.found THEN matches.first
       ELSE IF locations # <<>> THEN StrTitle(locations[1])
       ELSE <<>>

\* extract_location (lines 305-321)
extract_location(text) ==
    LET text_lower == StrLower(text)
        locations == LocationsIn(text_lower)
        matches == FindAll(location_pattern, text)
    IN IF locations # <<>> THEN StrTitle(locations[1])
       ELSE IF matches.found THEN matches.first
       ELSE <<>>

\* f"Rs. {x} crore", f"USD {x} million" and f"{x} crore"
RsCrore(x) == <<"R", "s", ".", " ">> \o x \o <<" ", "c", "r", "o", "r", "e">>
UsdMillion(x) == <<"U", "S", "D", " ">> \o x \o <<" ", "m", "i", "l", "l", "i", "o", "n">>
Crore(x) == x \o <<" ", "c", "r", "o", "r", "e">>

\* a variant whose bare number+unit pass runs before the prefixed passes
extract_contract_value_BareFirst(text) ==
    LET text_lower == StrLower(text)
        inr_matches == FindAll(inr_pattern, text_lower)
        value_matches == FindAll(value_pattern, text_lower)
    IN IF value_matches.found THEN Crore(value_matches.first)
       ELSE IF inr_matches.found THEN RsCrore(inr_matches.first)
       ELSE <<>>

\* extract_contract_value (lines 323-365)
extract_contract_value(text) ==
    LET text_lower == StrLower(text)
        inr_matches == FindAll(inr_pattern, text_lower)
        usd_matches == FindAll(usd_pattern, text_lower)
        value_matches == FindAll(value_pattern, text_lower)
        value_of_matches == FindAll(value_of_pattern, text_lower)
        from_value_of ==
            IF \/ InStr(<<"r", "s">>, text_lower) \/ InStr(<<"i", "n", "r">>, text_lower)
               \/ InStr(<<"rupee">>, text_lower)
            THEN RsCrore(value_of_matches.first)
            ELSE IF InStr(<<"u", "s", "d">>, text_lower) \/ InStr(<<"$">>, text_lower)
            THEN UsdMillion(value_of_matches.first)
            ELSE Crore(value_of_matches.first)
        all_matches ==
            (IF inr_matches.found THEN <<RsCrore(inr_matches.first)>> ELSE <<>>)
            \o (IF usd_matches.found THEN <<UsdMillion(usd_matches.first)>> ELSE <<>>)
            \o (IF value_of_matches.found THEN <<from_value_of>> ELSE <<>>)
        all_matches_4 ==
            IF all_matches = <<>> /\ value_matches.found
            THEN <<Crore(value_matches.first)>> ELSE all_matches
    IN IF all_matches_4 # <<>> THEN all_matches_4[1] ELSE <<>>

\* ------------------------------------------------------- announcements
\* the words the titles are made of
TitleWords ==
    << <<"X", "Y", "Z", " ", "L", "t", "d">>,
       <<"w", "i", "n", "s">>,
       <<"R", "s", ".", " ", "8", "0", "0", " ", "c", "r", "o", "r", "e">>,
       <<"h", "i", "g", "h", "w", "a", "y">>,
       <<"c", "o", "n", "t", "r", "a", "c", "t">>,
       <<"i", "n", " ", "M", "a", "h", "a", "r", "a", "s", "h", "t", "r", "a">>,
       <<"S", "o", "l", "a", "r", " ", "P", "o", "w", "e", "r">>,
       <<"p", "l", "a", "n", "t">>,
       <<"a", "i", "r", "p", "o", "r", "t">>,
       <<"B", "o", "a", "r", "d", " ", "M", "e", "e", "t", "i", "n", "g">>,
       <<"2", "0", "0", " ", "M", "W">> >>

\* the words joined by single spaces
RECURSIVE Join(_)
Join(words) ==
    IF words = <<>> THEN <<>>
    ELSE IF Len(words) = 1 THEN words[1]
    ELSE words[1] \o <<" ">> \o Join(Tail(words))

\* the texts of at most max_words words
WordTexts(max_words) ==
    UNION { { Join([k \in 1..n |-> TitleWords[f[k]]]) : f \in [1..n -> 1..Len(TitleWords)] } :
            n \in 0..max_words }

\* "XYZ Ltd wins Rs. 800 crore highway contract in Maharashtra"
ScenarioTitle == Join(SubSeq(TitleWords, 1, 6))

\* words with amounts, for the value extractor
ValueWords ==
    << <<"R", "s", ".", " ", "5", "0", "0", " ", "c", "r", "o", "r", "e">>,
       <<"2", "0", "0", " ", "M", "W">>,
       <<"U", "S", "D", " ", "5", " ", "m", "i", "l", "l", "i", "o", "n">>,
       <<"w", "o", "r", "t", "h", " ", "o", "f", " ", "3", "0", " ", "c", "r", "o", "r", "e">>,
       <<"o", "r", "d", "e", "r", "s">> >>

\* words with places, in and out of the gazetteer, and a strong keyword that is
\* no infrastructure keyword
PlaceWords ==
    << <<"p", "r", "o", "j", "e", "c", "t">>,
       <<"i", "n", " ", "N", "a", "s", "h", "i", "k">>,
       <<"i", "n", " ", "P", "i", "m", "p", "r", "i">>,
       <<"M", "a", "h", "a", "r", "a", "s", "h", "t", "r", "a">>,
       <<"f", "a", "c", "i", "l", "i", "t", "y">> >>

\* the texts of at most max_words of the given words
TextsOf(words, max_words) ==
    UNION { { Join([k \in 1..n |-> words[f[k]]]) : f \in [1..n -> 1..Len(words)] } :
            n \in 0..max_words }

TitleInputs ==
    WordTexts(MaxWords) \cup {ScenarioTitle}
       \cup TextsOf(ValueWords, MaxWords) \cup TextsOf(PlaceWords, MaxWords)

\* company names
CompanyInputs ==
    { <<"X", "Y", "Z", " ", "L", "t", "d">>,
      <<"S", "t", "e", "e", "l", " ", "P", "l", "a", "n", "t", " ", "c", "r", "o", "r", "e", " ", "L", "t", "d">> }

\* one announcement of the BSE feed, nothing applied to it yet
InitExtract ==
    /\ title \in TitleInputs
    /\ company \in CompanyInputs
    /\ fn = "none"
    /\ returned = NoneV
    /\ headlines_file = HFile("absent", <<>>)
    /\ qualified_file = AbsentTable
    /\ PipelineIdle
    /\ MergeIdle
    /\ ScrapeIdle
    /\ WebIdle

\* is_infra = is_infrastructure_related(title, company, security_code) (line 437)
CallIsInfrastructureRelated ==
    /\ fn = "none"
    /\ fn' = "is_infrastructure_related"
    /\ returned' = is_infrastructure_related(title, company, <<>>)
    /\ UNCHANGED << title, company, outsideExtract >>

\* extract_project_type(title) (bse_scraper.py, line 370)
CallExtractProjectType ==
    /\ fn = "none"
    /\ fn' = "extract_project_type"
    /\ returned' = extract_project_type(title)
    /\ UNCHANGED << title, company, outsideExtract >>

\* project_type = extract_project_type(title + " " + company) (line 465)
CallExtractProjectTypeOfRecord ==
    /\ fn = "none"
    /\ fn' = "project_type"
    /\ returned' = extract_project_type(title \o <<" ">> \o company)
    /\ UNCHANGED << title, company, outsideExtract >>

\* extract_location(text) (lines 305-321)
CallExtractLocation ==
    /\ fn = "none"
    /\ fn' = "extract_location"
    /\ returned' = extract_location(title)
    /\ UNCHANGED << title, company, outsideExtract >>

\* extract_contract_value(text) (lines 323-365)
CallExtractContractValue ==
    /\ fn = "none"
    /\ fn' = "extract_contract_value"
    /\ returned' = extract_contract_value(title)
    /\ UNCHANGED << title, company, outsideExtract >>

NextExtract ==
    \/ CallIsInfrastructureRelated
    \/ CallExtractProjectType
    \/ CallExtractProjectTypeOfRecord
    \/ CallExtractLocation
    \/ CallExtractContractValue

SpecExtract == InitExtract /\ [][NextExtract]_vars

\* ================================================================ crawl4ai_agent.py
\* The merge of the result files at the end of main. A file is absent or holds
\* the items read_csv_to_contract_news makes of it; the files are the
\* ones save_contract_news_to_csv wrote, so every row converts. An item is a
\* title and the source_url that tells the occurrences of a title apart.

\* rows of a result file, and items the searches found
MaxRows == 2

NewsTitles == {"A wins highway order", "B wins metro order"}

\* the items of the file with this number, one per title of the list
ItemsOf(number, titles) ==
    [r \in 1..Len(titles) |-> [title |-> titles[r], source_url |-> << number, r >>]]

TitleLists == UNION { [1..n -> NewsTitles] : n \in 0..MaxRows }

\* what a result file of a BSE scraper holds when main starts; main writes
\* crawl4ai_results.csv itself
InitialCsv(number) ==
    {NoCsv} \cup { CsvFile(TRUE, ItemsOf(number, titles)) : titles \in TitleLists }

\* a variant that keeps every item
AddUnique_KeepAll(items, kept) ==
    [all_news |-> kept.all_news \o items,
     seen_titles |-> kept.seen_titles \cup { items[r].title : r \in 1..Len(items) }]

\* the loop "if item.title not in seen_titles: add, append"
\* (lines 496-499, and main, lines 780-784)
RECURSIVE AddUnique(_, _)
AddUnique(items, kept) ==
    IF items = <<>> THEN kept
    ELSE LET item == Head(items)
         IN AddUnique(Tail(items),
                IF item.title \notin kept.seen_titles
                THEN [all_news |-> Append(kept.all_news, item),
                      seen_titles |-> kept.seen_titles \cup {item.title}]
                ELSE kept)

\* os.path.exists(filename) (line 491)
Exists(name) == csv_files[name].exists

InitMerge ==
    /\ all_news_items \in { ItemsOf(Len(InputFileNames), titles) : titles \in TitleLists }
    /\ \E first \in InitialCsv(1), second \in InitialCsv(2) :
          csv_files = [name \in Range(InputFileNames) |->
                          IF name = InputFileNames[1] THEN first
                          ELSE IF name = InputFileNames[2] THEN second
                          ELSE NoCsv]
    /\ file_no = 1
    /\ seen_titles = {}
    /\ all_news = <<>>
    /\ contract_news_csv = NoCsv
    /\ merge_pc = "main"
    /\ ExtractIdle
    /\ headlines_file = HFile("absent", <<>>)
    /\ qualified_file = AbsentTable
    /\ PipelineIdle
    /\ ScrapeIdle
    /\ WebIdle

outsideMerge == << pipelineVars, extractVars, scrapeVars, webVars >>

\* main removes the duplicates of what the searches found and saves the rest
\* to crawl4ai_results.csv (lines 778-787), then calls the merge (line 792)
MainSavesCrawlResults ==
    /\ merge_pc = "main"
    /\ csv_files' = [csv_files EXCEPT !["crawl4ai_results.csv"] =
                        CsvFile(TRUE, AddUnique(all_news_items,
                                                [all_news |-> <<>>, seen_titles |-> {}]).all_news)]
    /\ merge_pc' = "merge"
    /\ UNCHANGED << all_news_items, file_no, seen_titles, all_news, contract_news_csv,
                    outsideMerge >>

\* for filename in input_files: the file does not exist (line 491)
SkipMissingFile ==
    /\ merge_pc = "merge"
    /\ file_no <= Len(InputFileNames)
    /\ ~Exists(InputFileNames[file_no])
    /\ file_no' = file_no + 1
    /\ UNCHANGED << all_news_items, csv_files, seen_titles, all_news, contract_news_csv,
                    merge_pc, outsideMerge >>

\* for filename in input_files: read the file and add its unseen items
\* (lines 491-499)
ReadInputFile ==
    /\ merge_pc = "merge"
    /\ file_no <= Len(InputFileNames)
    /\ Exists(InputFileNames[file_no])
    /\ LET kept == AddUnique(csv_files[InputFileNames[file_no]].rows,
                             [all_news |-> all_news, seen_titles |-> seen_titles])
       IN /\ all_news' = kept.all_news
          /\ seen_titles' = kept.seen_titles
    /\ file_no' = file_no + 1
    /\ UNCHANGED << all_news_items, csv_files, contract_news_csv, merge_pc, outsideMerge >>

\* if all_news: save_contract_news_to_csv(all_news, output_file); return all_news
\* (lines 502-506)
SaveMerged ==
    /\ merge_pc = "merge"
    /\ file_no > Len(InputFileNames)
    /\ all_news # <<>>
    /\ contract_news_csv' = CsvFile(TRUE, all_news)
    /\ merge_pc' = "done"
    /\ UNCHANGED << all_news_items, csv_files, file_no, seen_titles, all_news, outsideMerge >>

\* nothing was read: no file is written (lines 502, 506)
ReturnEmpty ==
    /\ merge_pc = "merge"
    /\ file_no > Len(InputFileNames)
    /\ all_news = <<>>
    /\ merge_pc' = "done"
    /\ UNCHANGED << all_news_items, csv_files, file_no, seen_titles, all_news,
                    contract_news_csv, outsideMerge >>

NextMerge ==
    \/ MainSavesCrawlResults
    \/ SkipMissingFile
    \/ ReadInputFile
    \/ SaveMerged
    \/ ReturnEmpty

SpecMerge == InitMerge /\ [][NextMerge]_vars

\* ================================================= scrape_bse_announcements
\* The fetch loop and the enrichment loop of bse_scraper2.py. title and company
\* are the local variables of the function: the fetch loop assigns them for
\* every item of the response, and they keep their last values afterwards.

\* items in the response of the announcements API
MaxTable == 2

\* announcements as the API gives them: NEWSSUB, SLONGNAME and the text of the
\* attached PDF
AnnouncementInputs ==
    { [NEWSSUB |-> <<"m", "e", "t", "r", "o", " ", "o", "r", "d", "e", "r", " ", "i", "n", " ", "P", "i", "m", "p", "r", "i">>,
       SLONGNAME |-> <<"X", "Y", "Z", " ", "L", "t", "d">>,
       pdf_text |-> <<"w", "o", "r", "t", "h", " ", "o", "f", " ", "3", "0", " ", "c", "r", "o", "r", "e">>],
      [NEWSSUB |-> <<"a", "w", "a", "r", "d", "e", "d">>,
       SLONGNAME |-> <<"A", "B", "C", " ", "I", "n", "f", "r", "a">>,
       pdf_text |-> <<"s", "i", "t", "e", " ", "i", "n", " ", "S", "a", "t", "a", "r", "a">>],
      [NEWSSUB |-> <<"B", "o", "a", "r", "d", " ", "M", "e", "e", "t", "i", "n", "g">>,
       SLONGNAME |-> <<"X", "Y", "Z", " ", "L", "t", "d">>,
       pdf_text |-> <<>>],
      [NEWSSUB |-> <<>>,
       SLONGNAME |-> <<"X", "Y", "Z", " ", "L", "t", "d">>,
       pdf_text |-> <<>>] }

\* the days NEWS_DT can name
NewsDates == {1, 2}

\* an item of data['Table']: an announcement, its date, and whether the
\* download of its PDF answers 200 with a readable file
TableItems ==
    { [NEWSSUB |-> a.NEWSSUB, SLONGNAME |-> a.SLONGNAME, pdf_text |-> a.pdf_text,
       NEWS_DT |-> d, pdf_ok |-> ok] :
      a \in AnnouncementInputs, d \in NewsDates, ok \in BOOLEAN }

InitScrape ==
    /\ table_items \in UNION { [1..n -> TableItems] : n \in 0..MaxTable }
    /\ item_no = 1
    /\ infra_announcements = <<>>
    /\ announcement_no = 1
    /\ scrape_pc = "fetch"
    /\ ExtractIdle
    /\ headlines_file = HFile("absent", <<>>)
    /\ qualified_file = AbsentTable
    /\ PipelineIdle
    /\ MergeIdle
    /\ WebIdle

outsideScrape == << pipelineVars, mergeVars, webVars, fn, returned >>

\* BSEAnnouncement(...) (lines 468-478): location and contract_value keep their
\* default, the empty string (lines 243-244)
BSEAnnouncement(item, project_type) ==
    [title |-> item.NEWSSUB, company |-> item.SLONGNAME, date |-> item.NEWS_DT,
     pdf_text |-> item.pdf_text, pdf_ok |-> item.pdf_ok, pdf_content |-> <<>>,
     project_type |-> project_type, location |-> <<>>, contract_value |-> <<>>]

\* for item in data['Table'] (lines 422-482): the item has no title or is not
\* infrastructure-related, and the loop goes on (lines 432-439)
FetchSkipsItem ==
    /\ scrape_pc = "fetch"
    /\ item_no <= Len(table_items)
    /\ title' = table_items[item_no].NEWSSUB
    /\ company' = table_items[item_no].SLONGNAME
    /\ \/ title' = <<>>
       \/ ~is_infrastructure_related(title', company', <<>>)
    /\ item_no' = item_no + 1
    /\ UNCHANGED << table_items, infra_announcements, announcement_no, scrape_pc,
                    outsideScrape >>

\* for item in data['Table'] (lines 422-482): the announcement is kept
FetchKeepsItem ==
    /\ scrape_pc = "fetch"
    /\ item_no <= Len(table_items)
    /\ title' = table_items[item_no].NEWSSUB
    /\ company' = table_items[item_no].SLONGNAME
    /\ title' # <<>>
    /\ is_infrastructure_related(title', company', <<>>)
    /\ infra_announcements' =
          Append(infra_announcements,
                 BSEAnnouncement(table_items[item_no],
                                 extract_project_type(title' \o <<" ">> \o company')))
    /\ item_no' = item_no + 1
    /\ UNCHANGED << table_items, announcement_no, scrape_pc, outsideScrape >>

\* the place of e in a list sorted by date, newest first, behind the
\* announcements of its date
InsertByDate(sorted, e) ==
    LET n == Cardinality({k \in 1..Len(sorted) : sorted[k].date >= e.date})
    IN SubSeq(sorted, 1, n) \o <<e>> \o SubSeq(sorted, n + 1, Len(sorted))

RECURSIVE SortedByDate(_, _)
SortedByDate(announcements, n) ==
    IF n = 0 THEN <<>>
    ELSE InsertByDate(SortedByDate(announcements, n - 1), announcements[n])

\* infra_announcements.sort(key=lambda x: x.date, reverse=True) (line 509)
SortAnnouncements ==
    /\ scrape_pc = "fetch"
    /\ item_no > Len(table_items)
    /\ infra_announcements' = SortedByDate(infra_announcements, Len(infra_announcements))
    /\ scrape_pc' = "enrich"
    /\ UNCHANGED << table_items, item_no, announcement_no, title, company, outsideScrape >>

\* for announcement in infra_announcements: the PDF cannot be had
\* (lines 512-561)
DownloadFails ==
    /\ scrape_pc = "enrich"
    /\ announcement_no <= Len(infra_announcements)
    /\ ~infra_announcements[announcement_no].pdf_ok
    /\ announcement_no' = announcement_no + 1
    /\ UNCHANGED << table_items, item_no, infra_announcements, scrape_pc, title, company,
                    outsideScrape >>

\* the announcement with the fields the enrichment sets (lines 531-554):
\* combined_text is made of the function's title and company
Enriched(announcement, title_now, company_now) ==
    LET full_text == announcement.pdf_text
        combined_text == title_now \o <<" ">> \o company_now \o <<" ">> \o full_text
        refined_type == extract_project_type(combined_text)
    IN [announcement EXCEPT
          !.pdf_content = full_text,
          !.location = IF @ = <<>> THEN extract_location(combined_text) ELSE @,
          !.contract_value = IF @ = <<>> THEN extract_contract_value(combined_text) ELSE @,
          !.project_type = IF (@ = "Infrastructure Project" \/ @ = "")
                              /\ refined_type # "Infrastructure Project"
                           THEN refined_type ELSE @]

\* for announcement in infra_announcements: the PDF is read and the fields are
\* extracted (lines 512-554)
EnrichAnnouncement ==
    /\ scrape_pc = "enrich"
    /\ announcement_no <= Len(infra_announcements)
    /\ infra_announcements[announcement_no].pdf_ok
    /\ infra_announcements' =
          [infra_announcements EXCEPT
              ![announcement_no] = Enriched(@, title, company)]
    /\ announcement_no' = announcement_no + 1
    /\ UNCHANGED << table_items, item_no, scrape_pc, title, company, outsideScrape >>

\* the loop is over (line 563)
EnrichmentDone ==
    /\ scrape_pc = "enrich"
    /\ announcement_no > Len(infra_announcements)
    /\ scrape_pc' = "format"
    /\ UNCHANGED << table_items, item_no, infra_announcements, announcement_no, title,
                    company, outsideScrape >>

NextScrape ==
    \/ FetchSkipsItem
    \/ FetchKeepsItem
    \/ SortAnnouncements
    \/ DownloadFails
    \/ EnrichAnnouncement
    \/ EnrichmentDone

SpecScrape == InitScrape /\ [][NextScrape]_vars

\* ================================================================ app.py
\* The pipeline endpoints of the Flask server. The server handles requests in
\* threads; every access to pipeline_running is inside a `with pipeline_lock:`
\* block, so each block is one step. A request starts at most one thread,
\* which runs the pipeline as a subprocess.

InitApp ==
    /\ AppIdle
    /\ CacheIdle
    /\ ExtractIdle
    /\ headlines_file = HFile("absent", <<>>)
    /\ qualified_file = AbsentTable
    /\ PipelineIdle
    /\ MergeIdle
    /\ ScrapeIdle

outsideApp == << pipelineVars, extractVars, mergeVars, scrapeVars, cacheVars >>

\* a variant without the test of the flag
AlreadyRunning_Never == FALSE

\* `if pipeline_running:` (line 106)
AlreadyRunning == pipeline_running

\* a variant whose finally block leaves the flag alone
FlagAfterRun_Stays == pipeline_running

\* `pipeline_running = False` in the finally block (lines 76-77)
FlagAfterRun == FALSE

\* run_pipeline, the locked block (lines 105-107): a run is in progress and
\* the request is answered 400
RunPipelineRefused(r) ==
    /\ request_pc[r] = "none"
    /\ AlreadyRunning
    /\ request_pc' = [request_pc EXCEPT ![r] = "answered"]
    /\ response' = [response EXCEPT ![r] = 400]
    /\ UNCHANGED << pipeline_running, worker_pc, status_reported, outsideApp >>

\* run_pipeline, the locked block (lines 105-108): the flag is set
RunPipelineAccepted(r) ==
    /\ request_pc[r] = "none"
    /\ ~AlreadyRunning
    /\ pipeline_running' = TRUE
    /\ request_pc' = [request_pc EXCEPT ![r] = "start"]
    /\ UNCHANGED << response, worker_pc, status_reported, outsideApp >>

\* the thread is started and the request answered (lines 111-114)
ThreadStarts(r) ==
    /\ request_pc[r] = "start"
    /\ worker_pc' = [worker_pc EXCEPT ![r] = "begin"]
    /\ request_pc' = [request_pc EXCEPT ![r] = "answered"]
    /\ response' = [response EXCEPT ![r] = 200]
    /\ UNCHANGED << pipeline_running, status_reported, outsideApp >>

\* the thread cannot be started: the flag is cleared and the request answered
\* 500 (lines 115-118)
ThreadStartFails(r) ==
    /\ request_pc[r] = "start"
    /\ pipeline_running' = FALSE
    /\ request_pc' = [request_pc EXCEPT ![r] = "answered"]
    /\ response' = [response EXCEPT ![r] = 500]
    /\ UNCHANGED << worker_pc, status_reported, outsideApp >>

\* run_pipeline_async sets the flag again (lines 68-69)
WorkerSetsFlag(r) ==
    /\ worker_pc[r] = "begin"
    /\ pipeline_running' = TRUE
    /\ worker_pc' = [worker_pc EXCEPT ![r] = "launch"]
    /\ UNCHANGED << request_pc, response, status_reported, outsideApp >>

\* subprocess.run starts deepseek_pipeline.py (line 70)
SubprocessStarts(r) ==
    /\ worker_pc[r] = "launch"
    /\ worker_pc' = [worker_pc EXCEPT ![r] = "running"]
    /\ UNCHANGED << pipeline_running, request_pc, response, status_reported, outsideApp >>

\* subprocess.run cannot launch the interpreter: `except Exception` (lines 73-74)
LaunchFails(r) ==
    /\ worker_pc[r] = "launch"
    /\ worker_pc' = [worker_pc EXCEPT ![r] = "not launched"]
    /\ UNCHANGED << pipeline_running, request_pc, response, status_reported, outsideApp >>

\* the subprocess ends, with exit status 0 or with another one, which check=True
\* turns into CalledProcessError (lines 70-72)
SubprocessEnds(r, ok) ==
    /\ worker_pc[r] = "running"
    /\ worker_pc' = [worker_pc EXCEPT ![r] = IF ok THEN "exited" ELSE "failed"]
    /\ UNCHANGED << pipeline_running, request_pc, response, status_reported, outsideApp >>

\* the subprocess is over, however it ended
Ended == {"exited", "failed", "not launched"}

\* the finally block of run_pipeline_async (lines 75-77)
WorkerClearsFlag(r) ==
    /\ worker_pc[r] \in Ended
    /\ pipeline_running' = FlagAfterRun
    /\ worker_pc' = [worker_pc EXCEPT ![r] = "finished"]
    /\ UNCHANGED << request_pc, response, status_reported, outsideApp >>

\* get_pipeline_status (lines 120-124)
GetPipelineStatus ==
    /\ status_reported' = pipeline_running
    /\ UNCHANGED << pipeline_running, request_pc, response, worker_pc, outsideApp >>

NextApp ==
    \/ \E r \in Requests : RunPipelineRefused(r)
    \/ \E r \in Requests : RunPipelineAccepted(r)
    \/ \E r \in Requests : ThreadStarts(r)
    \/ \E r \in Requests : ThreadStartFails(r)
    \/ \E r \in Requests : WorkerSetsFlag(r)
    \/ \E r \in Requests : SubprocessStarts(r)
    \/ \E r \in Requests : LaunchFails(r)
    \/ \E r \in Requests, ok \in BOOLEAN : SubprocessEnds(r, ok)
    \/ \E r \in Requests : WorkerClearsFlag(r)
    \/ GetPipelineStatus

SpecApp == InitApp /\ [][NextApp]_vars

\* a thread that has been started runs: the interpreter schedules it, and its
\* finally block is executed once the subprocess is over
SpecAppFair ==
    /\ InitApp
    /\ [][NextApp]_vars
    /\ \A r \in Requests : WF_vars(WorkerSetsFlag(r)) /\ WF_vars(WorkerClearsFlag(r))

\* ------------------------------------------------- load_projects_from_csv
\* Concurrent calls of load_projects_from_csv, which takes no lock, while
\* qualified_news.csv is rewritten. The file exists; a rewrite gives it a new
\* modification time and new records, both named by the version number. Each
\* statement that reads or writes a global or the file is one step.

\* versions of qualified_news.csv
MaxVersions == 2

InitCache ==
    /\ CacheIdle
    /\ AppIdle
    /\ ExtractIdle
    /\ headlines_file = HFile("absent", <<>>)
    /\ qualified_file = AbsentTable
    /\ PipelineIdle
    /\ MergeIdle
    /\ ScrapeIdle

outsideCache == << pipelineVars, extractVars, mergeVars, scrapeVars, appVars >>

\* the pipeline rewrites the file (deepseek_pipeline.py, line 346)
RewriteCsv ==
    /\ csv_version < MaxVersions
    /\ csv_version' = csv_version + 1
    /\ UNCHANGED << last_modified_time, cached_projects, load_pc, current_mtime, projects,
                    load_returned, outsideCache >>

\* a call begins: current_mtime = os.path.getmtime(CSV_FILE) (lines 39-43)
GetMtime(c) ==
    /\ load_pc[c] \in {"none", "returned"}
    /\ current_mtime' = [current_mtime EXCEPT ![c] = csv_version]
    /\ load_pc' = [load_pc EXCEPT ![c] = "test"]
    /\ UNCHANGED << csv_version, last_modified_time, cached_projects, projects,
                    load_returned, outsideCache >>

\* `current_mtime == last_modified_time and cached_projects` (line 46)
CacheIsFresh(c) == current_mtime[c] = last_modified_time /\ cached_projects # 0

\* return cached_projects (lines 46-47)
ReturnCached(c) ==
    /\ load_pc[c] = "test"
    /\ CacheIsFresh(c)
    /\ load_returned' = [load_returned EXCEPT ![c] = cached_projects]
    /\ load_pc' = [load_pc EXCEPT ![c] = "returned"]
    /\ UNCHANGED << csv_version, last_modified_time, cached_projects, current_mtime,
                    projects, outsideCache >>

\* df = pd.read_csv(CSV_FILE); projects = df.to_dict('records') (lines 50-53)
ReadCsv(c) ==
    /\ load_pc[c] = "test"
    /\ ~CacheIsFresh(c)
    /\ projects' = [projects EXCEPT ![c] = csv_version]
    /\ load_pc' = [load_pc EXCEPT ![c] = "set time"]
    /\ UNCHANGED << csv_version, last_modified_time, cached_projects, current_mtime,
                    load_returned, outsideCache >>

\* last_modified_time = current_mtime (line 56)
SetLastModifiedTime(c) ==
    /\ load_pc[c] = "set time"
    /\ last_modified_time' = current_mtime[c]
    /\ load_pc' = [load_pc EXCEPT ![c] = "set cache"]
    /\ UNCHANGED << csv_version, cached_projects, current_mtime, projects, load_returned,
                    outsideCache >>

\* cached_projects = projects; return projects (lines 57-59)
SetCachedProjects(c) ==
    /\ load_pc[c] = "set cache"
    /\ cached_projects' = projects[c]
    /\ load_returned' = [load_returned EXCEPT ![c] = projects[c]]
    /\ load_pc' = [load_pc EXCEPT ![c] = "returned"]
    /\ UNCHANGED << csv_version, last_modified_time, current_mtime, projects, outsideCache >>

NextCache ==
    \/ RewriteCsv
    \/ \E c \in Callers : GetMtime(c)
    \/ \E c \in Callers : ReturnCached(c)
    \/ \E c \in Callers : ReadCsv(c)
    \/ \E c \in Callers : SetLastModifiedTime(c)
    \/ \E c \in Callers : SetCachedProjects(c)

SpecCache == InitCache /\ [][NextCache]_vars

\* ------------------------------------------------------------ properties
InLoop == pc \in {"dup", "dup_ret", "qual", "qual_ret", "judge"}

Records == 1..Len(rec_log)

Outcome(k) == rec_log[k].outcome

AcceptedIdx == {qualified_news[m].idx : m \in 1..Len(qualified_news)}

\* the titles to add to the log are those of the accepted items, in order
NewlyFollowsQualified ==
    /\ Len(newly_sent_headlines) = Len(qualified_news)
    /\ \A m \in 1..Len(qualified_news) : newly_sent_headlines[m] = qualified_news[m].news

\* C2: a batch in which no record is accepted (each is dropped as a duplicate,
\* rejected or errored) writes neither file: while it runs and when it has
\* returned, the headline log and the table are as they were before it.
C2_NoNewHeadlineNoWrite ==
    (/\ pc \in {"dup", "dup_ret", "qual", "qual_ret", "judge", "finish", "done", "raised"}
     /\ \A k \in Records : Outcome(k) # "Accepted")
    => Files = files0

C2_Witness ==
    /\ pc = "done"
    /\ Len(news_items) = 2
    /\ Outcome(1) = "Dropped"
    /\ Outcome(2) = "Rejected"
    /\ files0.q.kind = "table"
    /\ files0.h.kind = "list"

\* C3: every qualification result process_news keeps or writes to the table
\* carries one of the nine allowed tags.
C3_TagClosure ==
    /\ \A m \in 1..Len(qualified_news) :
          qualified_news[m].qualification.tag \in AllowedTags
    /\ \A m \in 1..Len(qualified_file.rows) : qualified_file.rows[m].tag \in AllowedTags

\* C6: a record whose model call failed with every fallback exhausted is
\* skipped: it is not among the accepted items, its title is not among the
\* titles to log, process_news has not raised that failure, the loop has moved
\* past it, and when the loop is over every record of the batch has an outcome.
C6_FailedRecordSkipped ==
    /\ NewlyFollowsQualified
    /\ \A k \in Records :
          Outcome(k) = "Errored" =>
             /\ k \notin AcceptedIdx
             /\ error # "Exception"
             /\ i > k
    /\ (\E k \in Records : Outcome(k) = "Errored") /\ pc \in {"finish", "save_csv", "done"}
          => \A j \in Records : Outcome(j) # "Pending"

C6_Witness ==
    /\ pc = "done"
    /\ Len(news_items) = 2
    /\ Outcome(1) = "Errored"
    /\ rec_log[1].answer = "UNIQUE"
    /\ Outcome(2) = "Accepted"
    /\ headlines_file = HFile("list", <<news_items[2]>>)

Unparsable == {"nobrace", "malformed"}

Diagnostics ==
    { "str:Failed to parse AI model response",
      "str:Failed to parse AI model response: JSONDecodeError" }

\* C7: for a response the brace heuristic or the JSON parser cannot read,
\* _qualify_news_content returns qualified = false with a diagnostic reasoning,
\* and the next step of the loop ends the record Rejected, nothing raised.
C7_ParseFailureRejected ==
    /\ [](pc = "judge" /\ parse \in Unparsable
            => /\ qualification.qualified = "bool:false"
               /\ qualification.reasoning \in Diagnostics)
    /\ [][pc = "judge" /\ parse \in Unparsable
            => /\ rec_log'[i].outcome = "Rejected"
               /\ pc' # "raised"
               /\ qualified_news' = qualified_news]_vars

C7_Witness ==
    /\ pc = "judge"
    /\ parse = "malformed"
    /\ qualification = BadJsonResult

\* C8: a record gets a qualification call only after its duplicate check
\* answered without the word DUPLICATE (in any case); a record whose answer
\* holds the word is Dropped with no qualification call and is neither among
\* the accepted items nor among the titles to log.
C8_QualifyOnlyAfterUnique ==
    /\ NewlyFollowsQualified
    /\ \A k \in Records :
          /\ rec_log[k].qual_calls > 0 => rec_log[k].answer = "UNIQUE"
          /\ rec_log[k].answer = "DUPLICATE" =>
                /\ Outcome(k) = "Dropped"
                /\ rec_log[k].qual_calls = 0
                /\ k \notin AcceptedIdx

C8_Witness ==
    /\ pc = "done"
    /\ Len(news_items) = 2
    /\ rec_log[1].answer = "DUPLICATE"
    /\ Outcome(1) = "Dropped"
    /\ rec_log[2].qual_calls = 1
    /\ Outcome(2) = "Accepted"

\* C9: loading the headline log never fails fatally: when the file is absent,
\* corrupt or not a list, construction succeeds with the empty list and the
\* batch that follows does not raise on account of the loaded value.
C9_LoadNeverFatal ==
    (pc # "idle" /\ files0.h.kind \in {"absent", "malformed", "nonlist", "undecodable"})
    => /\ error \notin {"UnicodeDecodeError", "AttributeError"}
       /\ (pc \in {"ready", "finish"} \/ InLoop) => sent_headlines = PyList(<<>>)

\* the duplicate check of record k answered DUPLICATE exactly when the title
\* is in the log the pipeline loaded
Faithful(k) ==
    /\ rec_log[k].answer # "none"
    /\ rec_log[k].answer = "DUPLICATE" <=> news_items[k] \in Range(sent_headlines.items)

\* C1 as claimed: a title an earlier batch that returned has accepted,
\* rejected or failed on is Dropped when a later batch meets it, the log intact
\* and the duplicate check faithful to it.
C1_SecondOccurrenceDropped ==
    (InLoop \/ pc = "finish") =>
       \A k \in Records :
          (log_intact /\ Faithful(k) /\ news_items[k] \in processed)
             => Outcome(k) = "Dropped"

\* C1 as amended: a title accepted by an earlier batch that saved the headline
\* log is Dropped when a later batch meets it, the log intact and the duplicate
\* check faithful to it.
C1_AcceptedThenDropped ==
    (InLoop \/ pc = "finish") =>
       \A k \in Records :
          (log_intact /\ Faithful(k) /\ news_items[k] \in logged)
             => /\ Outcome(k) = "Dropped"
                /\ rec_log[k].qual_calls = 0
                /\ k \notin AcceptedIdx

C1_Witness ==
    /\ runs = 2
    /\ pc = "finish"
    /\ files0.h.kind = "list"
    /\ news_items = <<"t2">>
    /\ "t2" \in logged
    /\ log_intact
    /\ Faithful(1)
    /\ Outcome(1) = "Dropped"

\* the place of each provider in the order the claim gives
Rank(p) ==
    CASE p = "deepseek_client" -> 1
      [] p = "gemini_client" -> 2
      [] p = "deepseek_http" -> 3
      [] OTHER -> 4

Providers == {"deepseek_client", "gemini_client", "deepseek_http", "gemini_http"}

Attempted == {attempts[a].provider : a \in 1..Len(attempts)}

\* C4: within one call the providers are invoked in the order DeepSeek client,
\* Gemini client, DeepSeek HTTP, Gemini HTTP, none that is configured being
\* passed over; nothing is invoked after a success; the call returns on the
\* first success and raises only when every provider it invoked has failed.
C4_FallbackOrder ==
    /\ \A a, b \in 1..Len(attempts) :
          a < b => Rank(attempts[a].provider) < Rank(attempts[b].provider)
    /\ \A a \in 1..(Len(attempts) - 1) : ~attempts[a].ok
    /\ pc \in {"dup_ret", "qual_ret"} =>
          /\ attempts # <<>>
          /\ attempts[Len(attempts)].ok
          /\ \A p \in Providers :
                (ProviderAvailable(p) /\ Rank(p) < Rank(attempts[Len(attempts)].provider))
                   => p \in Attempted
    /\ InCall =>
          /\ \A a \in 1..Len(attempts) : ~attempts[a].ok
          /\ stage > NumStages =>
                \A p \in Providers : ProviderAvailable(p) => p \in Attempted

C4_Witness ==
    /\ pc = "qual_ret"
    /\ attempts = << [provider |-> "deepseek_client", ok |-> FALSE],
                     [provider |-> "gemini_client", ok |-> FALSE],
                     [provider |-> "deepseek_http", ok |-> TRUE] >>

\* C5: within one call no provider is invoked twice, so a call makes at most
\* four invocations; and each record gets at most one duplicate-check call and
\* at most one qualification call.
C5_NoRetry ==
    /\ \A a, b \in 1..Len(attempts) :
          attempts[a].provider = attempts[b].provider => a = b
    /\ Len(attempts) <= 4
    /\ \A k \in Records : rec_log[k].dup_calls <= 1 /\ rec_log[k].qual_calls <= 1

C5_Witness ==
    /\ pc = "qual"
    /\ stage > NumStages
    /\ Len(attempts) = 4
    /\ rec_log[1].dup_calls = 1
    /\ rec_log[1].qual_calls = 1

\* C10: a pipeline constructed with no usable DeepSeek key and no usable Gemini
\* key fails with ValueError: it never gets a batch, makes no model call and
\* leaves both files as they were.
C10_NoKeyNoRun ==
    (pc # "idle" /\ ~Truthy(deepseek_api_key) /\ ~Truthy(gemini_api_key))
    => /\ pc = "init_failed"
       /\ error = "ValueError"
       /\ news_items = <<>>
       /\ rec_log = <<>>
       /\ attempts = <<>>
       /\ Files = files0

C10_Witness ==
    /\ pc = "init_failed"
    /\ error = "ValueError"
    /\ deepseek_api_key = ""
    /\ gemini_api_key = NoneV
    /\ files0.h.kind = "list"

\* the headlines a file holds for a pipeline that loads it
Persisted(file) == IF file.kind = "list" THEN file.items ELSE <<>>

\* the titles of the records 1..k of the batch that ended Accepted, in the
\* order of the batch
RECURSIVE AcceptedTitles(_)
AcceptedTitles(k) ==
    IF k = 0 THEN <<>>
    ELSE IF Outcome(k) = "Accepted"
    THEN Append(AcceptedTitles(k - 1), news_items[k])
    ELSE AcceptedTitles(k - 1)

C12_TableFullReplace ==
    (pc = "done" /\ AcceptedTitles(Len(rec_log)) # <<>>) =>
       /\ qualified_file.kind = "table"
       /\ Len(qualified_file.rows) = Len(AcceptedTitles(Len(rec_log)))
       /\ \A m \in 1..Len(qualified_file.rows) :
             /\ qualified_file.rows[m].title = AcceptedTitles(Len(rec_log))[m]
             /\ qualified_file.rows[m].tag =
                   Get(qualified_news[m].qualification, "tag", "")

C12_Witness ==
    /\ pc = "done"
    /\ files0.q.kind = "table"
    /\ files0.q.rows[1].title = "t1"
    /\ news_items = <<"t2", "t1">>
    /\ Outcome(1) = "Accepted"
    /\ Outcome(2) = "Rejected"
    /\ Len(qualified_file.rows) = 1
    /\ qualified_file.rows[1].title = "t2"

\* no element occurs twice in the sequence
NoRepeat(seq) == \A a, b \in 1..Len(seq) : seq[a] = seq[b] => a = b

\* the duplicate check of record k answered DUPLICATE exactly when the title
\* was in the log before the batch
FaithfulToSnapshot(k) ==
    rec_log[k].answer = "DUPLICATE" <=> news_items[k] \in Range(Persisted(files0.h))

\* C13: title uniqueness. When a batch has returned, every duplicate check of
\* it having answered DUPLICATE exactly for the titles in the log, no title
\* occurs twice in the headline log and no two rows of the table share a title.
C13_TitleUniqueness ==
    (pc = "done" /\ \A k \in Records : FaithfulToSnapshot(k)) =>
       /\ NoRepeat(Persisted(headlines_file))
       /\ NoRepeat([m \in 1..Len(qualified_file.rows) |-> qualified_file.rows[m].title])

\* C14: snapshot read. The duplicate check of every record of a batch is made
\* against the headline log as the pipeline loaded it before the batch; the
\* list in memory does not change while the loop runs, so a title accepted
\* earlier in the batch is not in the list a later check is given.
C14_SnapshotRead ==
    /\ (InLoop \/ pc = "finish") => sent_headlines = LoadSentHeadlines(files0.h).value
    /\ \A k \in Records :
          rec_log[k].dup_calls > 0 => rec_log[k].seen = LoadSentHeadlines(files0.h).value

C14_Witness ==
    /\ pc = "dup_ret"
    /\ i = 2
    /\ Outcome(1) = "Accepted"
    /\ newly_sent_headlines = <<"t2">>
    /\ files0.h = HFile("list", <<"t1">>)
    /\ rec_log[2].dup_calls = 1
    /\ rec_log[2].seen = PyList(<<"t1">>)

\* the model calls started for record k
CallsStarted(k) == rec_log[k].dup_calls + rec_log[k].qual_calls

\* C15: the records of a batch are processed one after the other. A record has
\* a call started only when every record before it has its outcome, so at most
\* one record is between its first call and its outcome, and a call in
\* progress belongs to that record.
C15_OneRecordAtATime ==
    /\ \A k, j \in Records :
          (k < j /\ CallsStarted(j) > 0) => Outcome(k) # "Pending"
    /\ Cardinality({k \in Records : CallsStarted(k) > 0 /\ Outcome(k) = "Pending"}) <= 1
    /\ InCall => (i \in Records /\ CallsStarted(i) > 0 /\ Outcome(i) = "Pending")

C15_Witness ==
    /\ pc = "qual"
    /\ i = 2
    /\ Len(news_items) = 2
    /\ rec_log[1].qual_calls = 1
    /\ Outcome(1) = "Accepted"
    /\ rec_log[2].qual_calls = 1
    /\ Outcome(2) = "Pending"

\* ------------------------------------------------ properties, bse_scraper2.py
\* sub occurs in text
Occurs(sub, text) ==
    \E p \in 1..(Len(text) - Len(sub) + 1) : SubSeq(text, p, p + Len(sub) - 1) = sub

\* the text extract_project_type was given in this state
TypedText ==
    IF fn = "project_type" THEN title \o <<" ">> \o company ELSE title

\* the keywords of the mapping, by their place in it, whose lowercase form
\* occurs in the lowercased text
Matching(text) ==
    LET lower == StrLower(text)
    IN {k \in 1..Len(PROJECT_TYPE_MAPPING) :
           Occurs(StrLower(PROJECT_TYPE_MAPPING[k].keyword), lower)}

KeywordLen(k) == Len(PROJECT_TYPE_MAPPING[k].keyword)

\* C16: longest-match priority. When a keyword of the mapping occurs in the
\* text, extract_project_type returns the project type of the occurring keyword
\* that is longest, and among the longest of the one that comes first in the
\* mapping.
C16_LongestMatch ==
    fn \in {"extract_project_type", "project_type"} =>
       LET matching == Matching(TypedText)
       IN matching # {} =>
             \E k \in matching :
                /\ \A j \in matching :
                      \/ KeywordLen(j) < KeywordLen(k)
                      \/ KeywordLen(j) = KeywordLen(k) /\ k <= j
                /\ returned = PROJECT_TYPE_MAPPING[k].project_type

\* two longest keywords with different project types occur, the later of the
\* mapping first in the text, and a shorter keyword of a third type
C16_Witness ==
    /\ fn = "extract_project_type"
    /\ title = <<"a", "i", "r", "p", "o", "r", "t", " ", "h", "i", "g", "h", "w", "a", "y">>
    /\ \E k, j, m \in Matching(title) :
          /\ k < j
          /\ KeywordLen(k) = KeywordLen(j)
          /\ KeywordLen(m) < KeywordLen(k)
          /\ \A n \in Matching(title) : KeywordLen(n) <= KeywordLen(k)
          /\ PROJECT_TYPE_MAPPING[k].project_type # PROJECT_TYPE_MAPPING[j].project_type
          /\ PROJECT_TYPE_MAPPING[m].project_type # PROJECT_TYPE_MAPPING[k].project_type
          /\ returned = PROJECT_TYPE_MAPPING[k].project_type

\* no keyword of the mapping occurs in the text
NoTaxonomyKeyword(text) == Matching(text) = {}

\* no gazetteer term occurs in the lowercased text
NoGazetteerTerm(text) ==
    LET lower == StrLower(text)
    IN \A k \in 1..Len(INDIAN_LOCATIONS) : ~Occurs(INDIAN_LOCATIONS[k], lower)

\* no "in", white space, then a capital letter and a small letter
NoInPhrase(text) ==
    ~\E p, q \in 1..Len(text) :
        /\ p + 2 < q
        /\ q < Len(text)
        /\ text[p] = "i"
        /\ text[p + 1] = "n"
        /\ \A r \in (p + 2)..(q - 1) : text[r] \in Whitespace
        /\ text[q] \in Range(UpperLetters)
        /\ text[q + 1] \in Range(LowerLetters)

ValueUnits ==
    { <<"c", "r", "o", "r", "e">>, <<"c", "r">>, <<"l", "a", "k", "h">>, <<"l", "a", "c">>, <<"m", "i", "l", "l", "i", "o", "n">>, <<"m", "n">>, <<"b", "i", "l", "l", "i", "o", "n">>,
      <<"b", "n">>, <<"m", "w">>, <<"g", "w">> }

\* no digit followed, after any white space, by a unit: no value pattern can
\* match, each of the four ending in a number and a unit
NoValuePhrase(text) ==
    LET lower == StrLower(text)
    IN ~\E p \in 1..Len(text), q \in 1..Len(text) :
           /\ p < q
           /\ lower[p] \in Digits
           /\ \A r \in (p + 1)..(q - 1) : text[r] \in Whitespace
           /\ \E u \in ValueUnits :
                 /\ q + Len(u) - 1 <= Len(text)
                 /\ SubSeq(lower, q, q + Len(u) - 1) = u

\* C17: a miss is not an error. For a text with no keyword of the mapping
\* extract_project_type returns "Infrastructure Project"; for a text with no
\* gazetteer term and no "in <Capitalized Word>" phrase extract_location returns
\* the empty string; for a text with no number and unit extract_contract_value
\* returns the empty string.
C17_MissGivesDefault ==
    /\ (fn = "extract_project_type" /\ NoTaxonomyKeyword(title))
          => returned = "Infrastructure Project"
    /\ (fn = "extract_location" /\ NoGazetteerTerm(title) /\ NoInPhrase(title))
          => returned = <<>>
    /\ (fn = "extract_contract_value" /\ NoValuePhrase(title))
          => returned = <<>>

C17_Witness ==
    /\ fn = "extract_project_type"
    /\ title = <<"X", "Y", "Z", " ", "L", "t", "d", " ", "w", "i", "n", "s">>
    /\ NoTaxonomyKeyword(title)
    /\ NoGazetteerTerm(title)
    /\ NoInPhrase(title)
    /\ NoValuePhrase(title)
    /\ returned = "Infrastructure Project"

\* C18: for the title "XYZ Ltd wins Rs. 800 crore highway contract in
\* Maharashtra" of the company "XYZ Ltd", extract_project_type returns
\* "Transportation - Highway", given the title alone or the title and company.
C18_ScenarioHighway ==
    (/\ fn \in {"extract_project_type", "project_type"}
     /\ title = ScenarioTitle
     /\ company = <<"X", "Y", "Z", " ", "L", "t", "d">>)
    => returned = "Transportation - Highway"

\* an exclusion keyword occurs in the title, in any case
HasExclusionKeyword(text) ==
    LET lower == StrLower(text)
    IN \E k \in 1..Len(EXCLUDE_KEYWORDS) : Occurs(StrLower(EXCLUDE_KEYWORDS[k]), lower)

HasInfraKeyword(text) ==
    LET lower == StrLower(text)
    IN \E k \in 1..Len(INFRA_KEYWORDS) : Occurs(StrLower(INFRA_KEYWORDS[k]), lower)

HasValueIndicator(text) ==
    LET lower == StrLower(text)
    IN \E k \in 1..Len(value_indicators) : Occurs(value_indicators[k], lower)

HasStrongKeyword(text) ==
    LET lower == StrLower(text)
    IN \E k \in 1..Len(strong_keywords) : Occurs(strong_keywords[k], lower)

\* C19: exclusion veto. For a title in which an exclusion keyword occurs,
\* is_infrastructure_related returns false, whatever else the title and the
\* company name hold.
C19_ExclusionVeto ==
    (fn = "is_infrastructure_related" /\ HasExclusionKeyword(title)) => returned = FALSE

C19_Witness ==
    /\ fn = "is_infrastructure_related"
    /\ title = <<"B", "o", "a", "r", "d", " ", "M", "e", "e", "t", "i", "n", "g", " ", "R", "s", ".", " ", "8", "0", "0", " ", "c", "r", "o", "r", "e">>
    /\ HasExclusionKeyword(title)
    /\ ~Occurs(<<"b", "o", "a", "r", "d", " ", "m", "e", "e", "t", "i", "n", "g">>, title)
    /\ HasInfraKeyword(title)
    /\ HasValueIndicator(title)
    /\ HasInfraKeyword(company)
    /\ HasStrongKeyword(company)
    /\ returned = FALSE

Rs500Crore == <<"R", "s", ".", " ", "5", "0", "0", " ", "c", "r", "o", "r", "e">>
Bare200MW == <<"2", "0", "0", " ", "M", "W">>

\* C21: extract_contract_value returns the formatted result of the first pass
\* that matches, in the order INR-prefixed value, USD-prefixed value,
\* "value/worth/amount of" phrase, bare number+unit; the bare pass counts only
\* when none of the first three matched, and nothing matching gives the empty
\* string. A text with both "Rs. 500 crore" and a bare "200 MW" gives
\* "Rs. 500 crore", whichever comes first.
C21_FirstPassWins ==
    fn = "extract_contract_value" =>
        LET text_lower == StrLower(title)
            pass1 == FindAll(inr_pattern, text_lower)
            pass2 == FindAll(usd_pattern, text_lower)
            pass3 == FindAll(value_of_pattern, text_lower)
            pass4 == FindAll(value_pattern, text_lower)
        IN /\ pass1.found => returned = RsCrore(pass1.first)
           /\ ~pass1.found /\ pass2.found => returned = UsdMillion(pass2.first)
           /\ ~pass1.found /\ ~pass2.found /\ pass3.found =>
                  returned \in { RsCrore(pass3.first), UsdMillion(pass3.first),
                                 Crore(pass3.first) }
           /\ ~pass1.found /\ ~pass2.found /\ ~pass3.found /\ pass4.found =>
                  returned = Crore(pass4.first)
           /\ ~pass1.found /\ ~pass2.found /\ ~pass3.found /\ ~pass4.found =>
                  returned = <<>>
           /\ InStr(Rs500Crore, title) /\ InStr(Bare200MW, title) =>
                  returned = Rs500Crore

\* the bare "200 MW" comes first in the text and the INR value is returned
C21_Witness ==
    /\ fn = "extract_contract_value"
    /\ title = Bare200MW \o <<" ">> \o Rs500Crore
    /\ FindAll(value_pattern, StrLower(title)).found
    /\ returned = Rs500Crore

\* ---------------------------------------------------------------- C22
ProjectInNashik == <<"p", "r", "o", "j", "e", "c", "t", " ", "i", "n", " ", "N", "a", "s", "h", "i", "k">>
ProjectInPimpri == <<"p", "r", "o", "j", "e", "c", "t", " ", "i", "n", " ", "P", "i", "m", "p", "r", "i">>
Nashik == <<"N", "a", "s", "h", "i", "k">>
Pimpri == <<"P", "i", "m", "p", "r", "i">>
InPimpriMaharashtra == <<"i", "n", " ", "P", "i", "m", "p", "r", "i", " ", "M", "a", "h", "a", "r", "a", "s", "h", "t", "r", "a">>
MaharashtraInPimpri == <<"M", "a", "h", "a", "r", "a", "s", "h", "t", "r", "a", " ", "i", "n", " ", "P", "i", "m", "p", "r", "i">>
Maharashtra == <<"M", "a", "h", "a", "r", "a", "s", "h", "t", "r", "a">>

\* the gazetteer terms that occur in the lowercased text
GazetteerTerms(text) ==
    LET lower == StrLower(text)
    IN { k \in 1..Len(INDIAN_LOCATIONS) : Occurs(INDIAN_LOCATIONS[k], lower) }

\* the gazetteer comes first: with a gazetteer term in the text the result is
\* a title-cased gazetteer term of the text, wherever an "in <Place>" phrase
\* stands; without one it is the first capture of the pattern, or the empty
\* string
GazetteerBeforePattern ==
    fn = "extract_location" =>
        /\ GazetteerTerms(title) # {} =>
               returned \in { StrTitle(INDIAN_LOCATIONS[k]) : k \in GazetteerTerms(title) }
        /\ GazetteerTerms(title) = {} =>
               returned = IF FindAll(location_pattern, title).found
                          THEN FindAll(location_pattern, title).first ELSE <<>>
        /\ title \in {InPimpriMaharashtra, MaharashtraInPimpri} => returned = Maharashtra

\* C22 as stated: the gazetteer comes before the "in <Place>" pattern, and
\* "project in Nashik" has no gazetteer term and gives "Nashik" by the pattern
C22_NashikByPattern ==
    /\ GazetteerBeforePattern
    /\ fn = "extract_location" /\ title = ProjectInNashik =>
           GazetteerTerms(title) = {} /\ returned = Nashik

\* C22 (amended): the gazetteer comes before the "in <Place>" pattern;
\* "project in Nashik" gives "Nashik" because "nashik" is a gazetteer term, and
\* a place outside the gazetteer, as in "project in Pimpri", is found by the
\* pattern
C22_GazetteerFirst ==
    /\ GazetteerBeforePattern
    /\ fn = "extract_location" /\ title = ProjectInNashik =>
           GazetteerTerms(title) # {} /\ returned = Nashik
    /\ fn = "extract_location" /\ title = ProjectInPimpri =>
           GazetteerTerms(title) = {} /\ returned = Pimpri

\* a gazetteer term after an "in <Place>" phrase wins over the phrase
C22_Witness ==
    /\ fn = "extract_location"
    /\ title = InPimpriMaharashtra
    /\ FindAll(location_pattern, title).found
    /\ returned = Maharashtra

\* the pattern is what finds a place outside the gazetteer
C22_FallbackWitness ==
    /\ fn = "extract_location"
    /\ title = ProjectInPimpri
    /\ GazetteerTerms(title) = {}
    /\ returned = Pimpri

\* ---------------------------------------------------------------- C23
\* C23: for a title without an exclusion keyword, is_infrastructure_related
\* returns true if the title has both a value indicator and an infrastructure
\* keyword, or if the title has a strong keyword.
C23_StrongKeywordSuffices ==
    ( /\ fn = "is_infrastructure_related"
      /\ ~HasExclusionKeyword(title)
      /\ \/ HasValueIndicator(title) /\ HasInfraKeyword(title)
         \/ HasStrongKeyword(title) )
    => returned = TRUE

\* the strong keyword "facility" is no infrastructure keyword: a title with it
\* and nothing else is turned down
C23_FacilityTurnedDown ==
    /\ fn = "is_infrastructure_related"
    /\ title = <<"f", "a", "c", "i", "l", "i", "t", "y">>
    /\ HasStrongKeyword(title)
    /\ ~HasExclusionKeyword(title)
    /\ ~HasInfraKeyword(title)
    /\ ~HasInfraKeyword(company)
    /\ returned = FALSE

\* ---------------------------------------------------------------- C24
\* the items of the input files the loop has read, in file order, then row order
RECURSIVE ReadSoFar(_)
ReadSoFar(number) ==
    IF number = 0 THEN <<>>
    ELSE ReadSoFar(number - 1)
            \o (IF Exists(InputFileNames[number]) THEN csv_files[InputFileNames[number]].rows
                ELSE <<>>)

\* the first item with this title
FirstWithTitle(items, t) ==
    items[CHOOSE r \in 1..Len(items) :
             /\ items[r].title = t
             /\ \A q \in 1..(r - 1) : items[q].title # t]

\* C24: merge_contract_news_files removes duplicates. Of the input files read,
\* the merged list holds no two items with the same title, holds for every
\* title in an existing file exactly its first occurrence (in file order, then
\* row order), and keeps the kept items in the order they were read; the file
\* written is that list.
C24_MergeKeepsFirst ==
    merge_pc \in {"merge", "done"} =>
        LET items == ReadSoFar(file_no - 1)
        IN /\ \A r, q \in 1..Len(all_news) : r # q => all_news[r].title # all_news[q].title
           /\ \A r \in 1..Len(items) :
                 \E q \in 1..Len(all_news) : all_news[q] = FirstWithTitle(items, items[r].title)
           /\ \A q \in 1..Len(all_news) :
                 /\ all_news[q] \in Range(items)
                 /\ all_news[q] = FirstWithTitle(items, all_news[q].title)
           /\ all_news = SelectSeq(items, LAMBDA item : item \in Range(all_news))
           /\ merge_pc = "done" /\ all_news # <<>> => contract_news_csv = CsvFile(TRUE, all_news)

\* a title that stands twice in one file and again in a later file is kept once
C24_Witness ==
    /\ merge_pc = "done"
    /\ \E number \in 1..Len(InputFileNames), r, q \in 1..MaxRows :
          LET rows == csv_files[InputFileNames[number]].rows
          IN /\ r < q
             /\ q <= Len(rows)
             /\ rows[r].title = rows[q].title
             /\ \E later \in (number + 1)..Len(InputFileNames) :
                   /\ Exists(InputFileNames[later])
                   /\ \E p \in 1..Len(csv_files[InputFileNames[later]].rows) :
                         csv_files[InputFileNames[later]].rows[p].title = rows[r].title
    /\ Len(all_news) < Len(ReadSoFar(Len(InputFileNames)))
    /\ contract_news_csv = CsvFile(TRUE, all_news)

\* ---------------------------------------------------------------- C25
\* C25: a record is Accepted only if the parsed qualification response carries
\* qualified as the boolean true; with the field missing, false or not a
\* boolean the record is Rejected.
C25_AcceptedOnlyIfTrue ==
    /\ \A m \in 1..Len(qualified_news) :
          qualified_news[m].qualification.qualified = "bool:true"
    /\ \A k \in Records :
          Outcome(k) = "Accepted" =>
             \E m \in 1..Len(qualified_news) :
                /\ qualified_news[m].idx = k
                /\ qualified_news[m].qualification.qualified = "bool:true"

\* a response with "qualified": "false", a string, is accepted
C25_StringFalseAccepted ==
    \E m \in 1..Len(qualified_news) :
       /\ qualified_news[m].qualification.qualified = "str:false"
       /\ Outcome(qualified_news[m].idx) = "Accepted"
       /\ newly_sent_headlines[m] = qualified_news[m].news

\* ---------------------------------------------------------------- C26
\* the table on disk has a row with this title
InTable(t) ==
    /\ qualified_file.kind = "table"
    /\ \E m \in 1..Len(qualified_file.rows) : qualified_file.rows[m].title = t

\* the batch has written the headline log with this title in it
LoggedByBatch(t) ==
    /\ headlines_file # files0.h
    /\ t \in Range(Persisted(headlines_file))

\* C26: the headline log and the table are persisted together per batch. In no
\* reachable state, a failed write or a stop between the two saves included,
\* does the log on disk hold a title accepted in the latest batch while the
\* table on disk lacks its record.
C26_LogAndTableTogether ==
    \A k \in Records :
       (Outcome(k) = "Accepted" /\ LoggedByBatch(news_items[k])) => InTable(news_items[k])

\* the log was written, then the write of the table failed and process_news
\* ended with the exception
C26_TableWriteFailed ==
    /\ pc = "raised"
    /\ error = "OSError"
    /\ \E k \in Records :
          /\ Outcome(k) = "Accepted"
          /\ LoggedByBatch(news_items[k])
          /\ ~InTable(news_items[k])

\* ---------------------------------------------------------------- C27
\* what the enrichment of an announcement gives when the text is made of the
\* announcement's own title and company
EnrichedFromItself(announcement) ==
    Enriched(announcement, announcement.title, announcement.company)

\* the announcement as the fetch loop made it
AsFetched(announcement) ==
    [announcement EXCEPT
        !.pdf_content = <<>>, !.location = <<>>, !.contract_value = <<>>,
        !.project_type = extract_project_type(announcement.title \o <<" ">>
                                              \o announcement.company)]

\* C27: in the enrichment step, the location, contract value and refined
\* project type given to an announcement are extracted from that
\* announcement's own title, company and PDF text.
C27_EnrichedFromOwnText ==
    scrape_pc \in {"enrich", "format"} =>
        \A k \in 1..(announcement_no - 1) :
           infra_announcements[k].pdf_ok =>
              infra_announcements[k] = EnrichedFromItself(AsFetched(infra_announcements[k]))

\* an announcement got the location of the title of another announcement
C27_LocationOfAnotherTitle ==
    /\ scrape_pc = "format"
    /\ \E k \in 1..Len(infra_announcements) :
          /\ infra_announcements[k].title = <<"a", "w", "a", "r", "d", "e", "d">>
          /\ infra_announcements[k].pdf_ok
          /\ infra_announcements[k].location = <<"P", "i", "m", "p", "r", "i">>
          /\ infra_announcements[k].project_type = "Transportation - Metro"

\* ---------------------------------------------------------------- C28
\* a request has set the flag and its thread has not cleared it yet
RunInProgress ==
    \E r \in Requests : request_pc[r] = "start" \/ worker_pc[r] \notin {"none", "finished"}

Subprocesses == { r \in Requests : worker_pc[r] = "running" }

\* C28: single writer. Under any interleaving of POST /api/run_pipeline
\* requests and pipeline completions at most one pipeline subprocess runs at
\* any time; a request that arrives while a run is in progress is answered 400
\* and starts no thread.
C28_SingleWriter ==
    /\ [](Cardinality(Subprocesses) <= 1)
    /\ [](\A r \in Requests : response[r] = 400 => worker_pc[r] = "none")
    /\ [][\A r \in Requests :
             (RunInProgress /\ request_pc[r] = "none" /\ request_pc'[r] # "none") =>
                 /\ response'[r] = 400
                 /\ request_pc'[r] = "answered"
                 /\ worker_pc' = worker_pc
                 /\ pipeline_running' = pipeline_running]_vars

\* a request was refused while the subprocess of another was running
C28_Witness ==
    \E r, w \in Requests :
       /\ worker_pc[w] = "running"
       /\ response[r] = 400
       /\ worker_pc[r] = "none"
       /\ request_pc[r] = "answered"

\* ---------------------------------------------------------------- C29
\* C29: every accepted run eventually clears the flag. Once the subprocess is
\* over (it exited with status 0, with another status, or could not be
\* launched) pipeline_running becomes false; the status endpoint answers with
\* the flag, which is true while a subprocess runs; and with the flag false a
\* request not yet made can start a new run.
C29_FlagEventuallyCleared ==
    /\ \A r \in Requests : (worker_pc[r] \in Ended) ~> (pipeline_running = FALSE)
    /\ [](Subprocesses # {} => pipeline_running)
    /\ [][status_reported' # status_reported => status_reported' = pipeline_running]_vars
    /\ [](\A r \in Requests :
             (~pipeline_running /\ request_pc[r] = "none") => ENABLED RunPipelineAccepted(r))

\* a second run is under way after the first, which failed, has cleared the flag
C29_Witness ==
    \E r, w \in Requests :
       /\ worker_pc[r] = "finished"
       /\ worker_pc[w] = "running"
       /\ pipeline_running
       /\ status_reported = FALSE

\* ---------------------------------------------------------------- C30
\* C30: cache coherence of load_projects_from_csv. Under any interleaving of
\* calls and rewrites of the file, the cached pair never puts a modification
\* time together with records of an older version of the file, and a call that
\* read the modification time the file still has returns the records of the
\* file as it is.
C30_CacheCoherent ==
    /\ cached_projects # 0 => cached_projects >= last_modified_time
    /\ \A c \in Callers :
          (load_pc[c] = "returned" /\ current_mtime[c] = csv_version) =>
              load_returned[c] = csv_version

\* no call is under way, the cache has the time of the file as it is and the
\* records of the version before, and a call made since has returned them
C30_StaleRecordsServed ==
    /\ \A c \in Callers : load_pc[c] = "returned"
    /\ csv_version = MaxVersions
    /\ last_modified_time = csv_version
    /\ cached_projects # 0
    /\ cached_projects < csv_version
    /\ \E c \in Callers :
          /\ current_mtime[c] = csv_version
          /\ load_returned[c] = cached_projects
          /\ projects[c] = csv_version

====
